---- MODULE Spec2Model ----
(***************************************************************************)
(* Aggregation-and-caching subsystem of the disaster response platform:    *)
(* cacheService (get/set over the `cache` table), the social search        *)
(* (getBlueskyReports and its helpers) and the FEMA feed aggregation       *)
(* (fetchRSSFeed, getLatestDisasters, getOfficialUpdates,                  *)
(* getDisasterStats).  Strings are TLA+ strings; time is the JavaScript    *)
(* clock in milliseconds.                                                  *)
(***************************************************************************)
EXTENDS Integers, Sequences, FiniteSets, TLC

VARIABLES
  now,      \* Date.now(): the wall clock, in milliseconds
  cache,    \* the rows of the `cache` table: [key, value, expires_at]
  calls,    \* cacheService calls, one record per caller
  applied,  \* per key, the set whose upsert the store applied last
  scoring,  \* one evaluation of calculateRelevanceScore: text, keywords, score
  agg,      \* the aggregation call that returned last: inputs, answers, result
  phase,    \* how far a run of aggregation calls has come: cold, warm, done
  inflight, \* the aggregation call awaiting its upstream answers, step by step
  disasterTable, \* the `disasters` table: its rows and the id the store gave last
  events,   \* what socketServer.io.emit has sent, in order
  requests  \* the HTTP requests on /disasters: handler position and response

cacheVars == <<now, cache, calls, applied>>
crudVars == <<disasterTable, events, requests>>
vars == <<now, cache, calls, applied, scoring, agg, phase, inflight, disasterTable, events, requests>>

(***************************************************************************)
(* Bounds of the model.                                                    *)
(***************************************************************************)
MaxCalls == 3
MaxClockSecs == 3
MaxWords == 2
MaxKeywords == 2
MaxSocialMinutes == 4
MaxAggHalfHours == 2
MaxLiveTicks == 3
MaxMarkupLen == 4
MaxStatsHalfHours == 5
MaxRequests == 3

(***************************************************************************)
(* Time.                                                                   *)
(***************************************************************************)
MsPerSec == 1000
HalfSec == MsPerSec \div 2
MaxClock == MaxClockSecs * MsPerSec

\* Date.prototype.toISOString keeps the instant to the millisecond; the
\* text is modelled by its seconds and milliseconds fields.
ToISOString(ms) == <<ms \div MsPerSec, ms % MsPerSec>>

\* new Date(isoText).getTime()
ParseDate(iso) == iso[1] * MsPerSec + iso[2]

(***************************************************************************)
(* Strings: String.prototype.toLowerCase and String.prototype.includes.    *)
(***************************************************************************)
UpperCase == "ABCDEFGHIJKLMNOPQRSTUVWXYZ"
LowerCase == "abcdefghijklmnopqrstuvwxyz"

LowerChar(ch) ==
  IF \E i \in 1..Len(UpperCase) : SubSeq(UpperCase, i, i) = ch
  THEN LET i == CHOOSE j \in 1..Len(UpperCase) : SubSeq(UpperCase, j, j) = ch
       IN SubSeq(LowerCase, i, i)
  ELSE ch

RECURSIVE ToLowerCase(_)
ToLowerCase(str) ==
  IF Len(str) = 0 THEN ""
  ELSE LowerChar(SubSeq(str, 1, 1)) \o ToLowerCase(SubSeq(str, 2, Len(str)))

\* str.includes(sub): some position of str starts a copy of sub.
Includes(str, sub) ==
  \E i \in 1..(Len(str) - Len(sub) + 1) : SubSeq(str, i, i + Len(sub) - 1) = sub

(***************************************************************************)
(* calculateRelevanceScore                                                 *)
(***************************************************************************)
emergencyTerms ==
  <<"urgent", "emergency", "help", "sos", "evacuation", "shelter", "relief", "rescue">>
locationTerms == <<"at", "near", "location", "address", "street", "building">>
resourceTerms == <<"available", "offering", "need", "looking for", "contact">>

KeywordWeight == 20
HashtagBonus == 10
EmergencyWeight == 15
LocationWeight == 10
ResourceWeight == 8
ScoreCap == 100

Min(a, b) == IF a <= b THEN a ELSE b

\* A list of terms that adds its weight once, whichever of them is present.
AnyTermScore(lowerText, terms, weight) ==
  IF \E i \in DOMAIN terms : Includes(lowerText, terms[i]) THEN weight ELSE 0

\* terms.forEach(term => { if (lowerText.includes(term)) score += weight })
RECURSIVE TermScore(_, _, _)
TermScore(lowerText, terms, weight) ==
  IF terms = <<>> THEN 0
  ELSE (IF Includes(lowerText, Head(terms)) THEN weight ELSE 0)
         + TermScore(lowerText, Tail(terms), weight)

\* keywords.forEach(keyword => { ... += 20 ... += 10 })
RECURSIVE KeywordScore(_, _)
KeywordScore(lowerText, keywords) ==
  IF keywords = <<>> THEN 0
  ELSE LET keywordLower == ToLowerCase(Head(keywords))
       IN (IF Includes(lowerText, keywordLower) THEN KeywordWeight ELSE 0)
            + (IF Includes(lowerText, "#" \o keywordLower) THEN HashtagBonus ELSE 0)
            + KeywordScore(lowerText, Tail(keywords))

RawScore(text, keywords) ==
  LET lowerText == ToLowerCase(text)
  IN KeywordScore(lowerText, keywords)
       + TermScore(lowerText, emergencyTerms, EmergencyWeight)
       + TermScore(lowerText, locationTerms, LocationWeight)
       + TermScore(lowerText, resourceTerms, ResourceWeight)

\* return Math.min(score, 100)
calculateRelevanceScore(text, keywords) == Min(RawScore(text, keywords), ScoreCap)

\* The texts and keyword lists scored: up to MaxWords words joined by
\* spaces, up to MaxKeywords keywords.
Words ==
  {"flood", "#Flood", "FIRE", "chatting", "near", "Need", "shelter", "area",
   "URGENT emergency help sos evacuation relief rescue", "looking for"}
KeywordPool == {"flood", "Fire", "wildfire", ""}

RECURSIVE Join(_, _)
Join(ws, sep) ==
  IF ws = <<>> THEN ""
  ELSE IF Len(ws) = 1 THEN ws[1]
  ELSE ws[1] \o sep \o Join(Tail(ws), sep)

SeqsUpTo(S, n) == UNION {[1..m -> S] : m \in 0..n}

Texts == {Join(ws, " ") : ws \in SeqsUpTo(Words, MaxWords)}
KeywordLists == SeqsUpTo(KeywordPool, MaxKeywords)

NotScored == -1
NotScoring == [text |-> "", keywords |-> <<>>, score |-> NotScored]


(***************************************************************************)
(* cacheService                                                            *)
(***************************************************************************)
Null == "null"
NoRow == [key |-> "", value |-> Null, expires_at |-> <<0, 0>>]

Keys == {"k1", "k2"}
Values == {"v1", "v2"}
TtlSeconds == {1, 2}

\* Callers of cacheService: caller 0 makes one call after another, callers
\* 1..MaxCalls make one call each, overlapping freely.
Sequential == 0
Racers == 1..MaxCalls
Slots == {Sequential} \cup Racers

Idle == [op |-> "idle", pc |-> "idle", key |-> "", value |-> Null, ttl |-> 0,
         expires_at |-> <<0, 0>>, sel |-> "", data |-> NoRow,
         doneAt |-> 0, result |-> Null, threw |-> FALSE]

NoCall == [op |-> "none"]

\* No aggregation call is awaiting an answer.
NoneInFlight == [op |-> "none", pc |-> "idle"]

NotApplied == [value |-> Null, ttl |-> 0, at |-> 0, expires_at |-> <<0, 0>>]
IsApplied(a) == a.ttl # 0

RowsOf(store, key) == {r \in store : r.key = key}

\* supabase.from('cache').select('value, expires_at').eq('key', key).single():
\* the outcomes the store can give.  .single() answers PGRST116 unless exactly
\* one row matches; any other error code, or an exception, can happen anytime.
SelectOutcomes(store, key) ==
  (IF Cardinality(RowsOf(store, key)) = 1 THEN {"row"} ELSE {"PGRST116"})
    \cup {"error", "throw"}

SelectData(store, key, outcome) ==
  IF outcome = "row" THEN CHOOSE r \in RowsOf(store, key) : TRUE ELSE NoRow

\* get without its catch: a store error or an exception leaves get.
GetRethrows(outcome, data, t) ==
  IF outcome \in {"throw", "error"} THEN [miss |-> TRUE, value |-> Null, threw |-> TRUE]
  ELSE IF outcome = "PGRST116" THEN [miss |-> TRUE, value |-> Null, threw |-> FALSE]
  ELSE IF ParseDate(data.expires_at) > t
       THEN [miss |-> FALSE, value |-> data.value, threw |-> FALSE]
       ELSE [miss |-> TRUE, value |-> Null, threw |-> FALSE]

\* The body of get once the select has answered, at clock reading t:
\* what get returns (miss: it is null) and whether an exception leaves it.
GetReturn(outcome, data, t) ==
  IF outcome = "throw" THEN [miss |-> TRUE, value |-> Null, threw |-> FALSE]
  ELSE IF outcome = "error" THEN [miss |-> TRUE, value |-> Null, threw |-> FALSE]
  ELSE IF outcome = "PGRST116" THEN [miss |-> TRUE, value |-> Null, threw |-> FALSE]
  ELSE IF ParseDate(data.expires_at) > t
       THEN [miss |-> FALSE, value |-> data.value, threw |-> FALSE]
       ELSE [miss |-> TRUE, value |-> Null, threw |-> FALSE]

\* An expiry that takes the default TTL of set, one hour, whatever is passed.
ExpiresAfterDefault(t, ttlSeconds) == ToISOString(t + 3600 * MsPerSec)

\* expires_at = new Date(Date.now() + ttlSeconds * 1000).toISOString()
ExpiresAt(t, ttlSeconds) == ToISOString(t + ttlSeconds * MsPerSec)

\* A plain insert: the row is added beside the one already stored.
InsertRow(store, row) == store \cup {row}

\* supabase.from('cache').upsert({ key, value, expires_at }): one statement
\* of the store, replacing the row of that key.
Upsert(store, row) == {r \in store : r.key # row.key} \cup {row}

UpsertOutcomes == {"ok", "error", "throw"}

\* set without its catch: a store error or an exception leaves set.
SetRethrows(outcome) == outcome # "ok"

\* Whether an exception leaves set: the catch logs and swallows everything.
SetThrows(outcome) == FALSE

CanStart(c) ==
  IF c = Sequential THEN calls[c].pc \in {"idle", "done"}
  ELSE /\ calls[c].pc = "idle"
       /\ \A d \in Racers : d < c => calls[d].pc # "idle"

\* get(key): the select is sent and answered by the store.
GetSelect(c, key) ==
  /\ CanStart(c)
  /\ \E outcome \in SelectOutcomes(cache, key) :
       calls' = [calls EXCEPT ![c] =
                   [Idle EXCEPT !.op = "get", !.pc = "check", !.key = key,
                                !.sel = outcome,
                                !.data = SelectData(cache, key, outcome)]]
  /\ UNCHANGED <<now, cache, applied, scoring, agg, phase, inflight, crudVars>>

\* get(key): the answer is examined against new Date() and get returns.
GetCheck(c) ==
  /\ calls[c].op = "get" /\ calls[c].pc = "check"
  /\ LET r == GetReturn(calls[c].sel, calls[c].data, now)
     IN calls' = [calls EXCEPT ![c] =
                    [@ EXCEPT !.pc = "done", !.doneAt = now,
                              !.result = r.value, !.threw = r.threw]]
  /\ UNCHANGED <<now, cache, applied, scoring, agg, phase, inflight, crudVars>>

\* set(key, value, ttlSeconds): expires_at is computed and the upsert sent.
SetBegin(c, key, value, ttl) ==
  /\ CanStart(c)
  /\ calls' = [calls EXCEPT ![c] =
                 [Idle EXCEPT !.op = "set", !.pc = "upsert", !.key = key,
                              !.value = value, !.ttl = ttl,
                              !.expires_at = ExpiresAt(now, ttl)]]
  /\ UNCHANGED <<now, cache, applied, scoring, agg, phase, inflight, crudVars>>

\* set: the store answers the upsert; an error is thrown, caught and logged.
SetUpsert(c) ==
  /\ calls[c].op = "set" /\ calls[c].pc = "upsert"
  /\ \E outcome \in UpsertOutcomes :
       /\ calls' = [calls EXCEPT ![c] =
                      [@ EXCEPT !.pc = "done", !.sel = outcome,
                                !.threw = SetThrows(outcome)]]
       /\ IF outcome = "ok"
          THEN /\ cache' = Upsert(cache, [key |-> calls[c].key,
                                          value |-> calls[c].value,
                                          expires_at |-> calls[c].expires_at])
               /\ applied' = [applied EXCEPT ![calls[c].key] =
                                [value |-> calls[c].value, ttl |-> calls[c].ttl,
                                 at |-> ParseDate(calls[c].expires_at)
                                          - calls[c].ttl * MsPerSec,
                                 expires_at |-> calls[c].expires_at]]
          ELSE UNCHANGED <<cache, applied>>
  /\ UNCHANGED <<now, scoring, agg, phase, inflight, crudVars>>

\* The wall clock advances by step, up to limit.
TickBy(step, limit) ==
  /\ now + step <= limit
  /\ now' = now + step
  /\ UNCHANGED <<cache, calls, applied, scoring, agg, phase, inflight, crudVars>>

Tick == TickBy(HalfSec, MaxClock)

(***************************************************************************)
(* socialMediaService: getBlueskyReports, formatBlueskyPosts,              *)
(* getFallbackMockData.                                                    *)
(***************************************************************************)
DefaultMaxResults == 25
ApiLimitCeiling == 100
ResultCap == 25
GenuineTtl == 180
FallbackTtl == 60

DefaultOptions == [maxResults |-> DefaultMaxResults, sortBy |-> "latest", lang |-> "en"]

\* `bluesky:${disasterKeywords.join('-')}:${sortBy}:${lang}`
BlueskyCacheKey(disasterKeywords, options) ==
  "bluesky:" \o Join(disasterKeywords, "-") \o ":" \o options.sortBy
    \o ":" \o options.lang

\* disasterKeywords[i], undefined past the end of the array
KeywordAt(disasterKeywords, i) ==
  IF i <= Len(disasterKeywords) THEN disasterKeywords[i] ELSE "undefined"

\* The search query built from the keywords.
BuildQuery(disasterKeywords) ==
  IF Len(disasterKeywords) > 1
  THEN LET fullPhrase == Join(disasterKeywords, " ")
           hashtagQuery == Join([i \in DOMAIN disasterKeywords |->
                                   "#" \o disasterKeywords[i]], " OR ")
       IN "\"" \o fullPhrase \o "\" OR " \o hashtagQuery \o " OR " \o fullPhrase
  ELSE LET keyword == KeywordAt(disasterKeywords, 1)
       IN "#" \o keyword \o " OR " \o keyword

\* post.uri.split('/').pop()
RECURSIVE LastSegment(_)
LastSegment(uri) ==
  IF Includes(uri, "/")
  THEN LastSegment(SubSeq(uri, 2, Len(uri)))
  ELSE uri

\* a || b for strings: the first one that is not empty
OrElse(a, b) == IF a # "" THEN a ELSE b

\* A raw post of the search API.  text = "" stands for a post without
\* record or without record.text; hasAuthor = FALSE for a post without author.
RawPost(uri, text, hasAuthor, handle, likeCount) ==
  [uri |-> uri, text |-> text, hasAuthor |-> hasAuthor, handle |-> handle,
   displayName |-> "", createdAt |-> <<0, 0>>, likeCount |-> likeCount]

\* A filter that keeps every post.
KeepsAll(post) == TRUE

\* .filter(post => post.record && post.record.text)
HasText(post) == post.text # ""

\* The object formatBlueskyPosts maps one raw post to.
FormatPost(post, keywords) ==
  [id |-> post.uri,
   post |-> post.text,
   user |-> OrElse(post.handle, OrElse(post.displayName, "anonymous")),
   userDisplayName |-> post.displayName,
   timestamp |-> post.createdAt,
   engagement |-> [likes |-> post.likeCount, reposts |-> 0, replies |-> 0],
   relevanceScore |-> calculateRelevanceScore(post.text, keywords),
   platform |-> "bluesky",
   url |-> "https://bsky.app/profile/" \o post.handle \o "/post/"
             \o LastSegment(post.uri)]

\* The answers agent.app.bsky.feed.searchPosts draws its posts from, and
\* the keyword lists searched.
ShelterPost ==
  RawPost("at://did:a/app.bsky.feed.post/p1", "Need shelter near #flood area", TRUE,
          "alice.bsky.social", 3)
ChatPost == RawPost("at://did:b/app.bsky.feed.post/p2", "just chatting", TRUE, "", 0)
TextlessPost == RawPost("at://did:c/app.bsky.feed.post/p3", "", TRUE, "carol.bsky.social", 1)
AuthorlessPost == RawPost("at://did:d/app.bsky.feed.post/p4", "flood help", FALSE, "", 0)

ApiPostPool == {ShelterPost, ChatPost, TextlessPost, AuthorlessPost}

SocialKeywordLists == {<<"flood">>, <<"California", "Wildfire">>}
EdgeKeywordLists == {<<>>, <<"">>}

\* FormatPost of every pool post, evaluated once.
FormatTable ==
  [post \in ApiPostPool, keywords \in SocialKeywordLists \cup EdgeKeywordLists |->
     FormatPost(post, keywords)]

FormatOne(post, keywords) ==
  IF <<post, keywords>> \in DOMAIN FormatTable
  THEN FormatTable[post, keywords]
  ELSE FormatPost(post, keywords)

\* Array.prototype.sort with (a, b) => b.relevanceScore - a.relevanceScore:
\* a stable sort, highest score first.
RECURSIVE InsertByScore(_, _)
InsertByScore(sorted, p) ==
  IF sorted = <<>> THEN <<p>>
  ELSE IF Head(sorted).relevanceScore >= p.relevanceScore
       THEN <<Head(sorted)>> \o InsertByScore(Tail(sorted), p)
       ELSE <<p>> \o sorted

RECURSIVE SortByScore(_)
SortByScore(posts) ==
  IF posts = <<>> THEN <<>>
  ELSE InsertByScore(SortByScore(SubSeq(posts, 1, Len(posts) - 1)),
                     posts[Len(posts)])

\* A slice that keeps the whole array.
WholeArray(seq, n) == seq

\* .slice(0, n)
Slice(seq, n) == SubSeq(seq, 1, Min(Len(seq), n))

\* formatBlueskyPosts(posts, keywords): the posts it returns, or the
\* TypeError of reading author.handle of a post without author.
formatBlueskyPosts(posts, keywords) ==
  LET kept == SelectSeq(posts, HasText)
  IN [threw |-> \E i \in DOMAIN kept : ~kept[i].hasAuthor,
      posts |-> Slice(SortByScore([i \in DOMAIN kept |->
                                     FormatOne(kept[i], keywords)]), ResultCap)]

\* A catalog entry whose text carries the instant of the call.
StampedMockPost(id, text, user, agoMs, score, t) ==
  [id |-> id, post |-> text \o " (" \o ToString(t) \o ")", user |-> user,
   timestamp |-> ToISOString(t - agoMs), relevanceScore |-> score,
   platform |-> "bluesky", isMockData |-> TRUE]

\* The catalog of getFallbackMockData, at clock reading t (of each entry the
\* id, text, user, timestamp, score, platform and flag; userDisplayName,
\* engagement and url are fixed texts and numbers left out).
MockPost(id, text, user, agoMs, score, t) ==
  [id |-> id, post |-> text, user |-> user,
   timestamp |-> ToISOString(t - agoMs), relevanceScore |-> score,
   platform |-> "bluesky", isMockData |-> TRUE]

mockPosts(disasterKeywords, t) ==
  LET primaryKeyword == OrElse(IF Len(disasterKeywords) >= 1
                               THEN disasterKeywords[1] ELSE "", "disaster")
      secondaryKeyword == OrElse(IF Len(disasterKeywords) >= 2
                                 THEN disasterKeywords[2] ELSE "", "emergency")
  IN << MockPost("mock-urgent-1",
          "URGENT: #" \o primaryKeyword \o " - Need medical supplies and clean water near downtown area. Red Cross station overwhelmed. Anyone have extras? #emergency #help",
          "localhelper.bsky.social", 180000, 95, t),
        MockPost("mock-shelter-2",
          "UPDATE: Emergency shelter at Lincoln High School (456 Oak Ave) has space for 150 more people. Hot meals available. Pet-friendly! #" \o primaryKeyword \o " #shelter #relief",
          "emergencycoord.bsky.social", 420000, 90, t),
        MockPost("mock-volunteer-3",
          "Volunteers needed at Community Center! We're organizing supply distribution for #" \o primaryKeyword \o " relief. Shifts 8am-2pm & 2pm-8pm. #volunteer #" \o secondaryKeyword,
          "volunteers4good.bsky.social", 600000, 85, t),
        MockPost("mock-resources-4",
          "Free resources available at 789 Maple Street: blankets, non-perishables, baby supplies, phone charging station. Open 24/7 during #" \o primaryKeyword \o " response. #help #community",
          "mutualaid.bsky.social", 900000, 80, t),
        MockPost("mock-transport-5",
          "Transportation help: Running shuttle service from Park & Main to evacuation centers every 30 mins. Free rides during #" \o primaryKeyword \o ". Look for blue van. #evacuation #transport",
          "rideshare.bsky.social", 1200000, 75, t),
        MockPost("mock-info-6",
          "INFO: For #" \o primaryKeyword \o " updates, tune to emergency radio 1610 AM or text ALERTS to 67283. Official evacuation routes posted at city website. Stay safe everyone! #info #safety",
          "cityemergency.bsky.social", 1500000, 70, t) >>

CatalogSize == 6
MinMockPosts == 3
MockPostSpread == 3

\* What Math.random decides in one getFallbackMockData call: numberOfPosts
\* (Math.floor(Math.random() * 3) + 3) and the order the randomly compared
\* sort leaves the catalog in; together, the catalog positions returned.
Shuffles ==
  UNION {{pick \in [1..n -> 1..CatalogSize] :
            \A i, j \in 1..n : i # j => pick[i] # pick[j]} :
         n \in MinMockPosts..(MinMockPosts + MockPostSpread - 1)}

\* A slice that returns the whole shuffled catalog.
PickWholeCatalog(catalog, pick) == catalog

\* shuffledPosts.slice(0, numberOfPosts), pick being the catalog positions
\* that Math.random brought to the front.
PickFrom(catalog, pick) == [i \in DOMAIN pick |-> catalog[pick[i]]]

\* getFallbackMockData(disasterKeywords)
getFallbackMockData(disasterKeywords, t, pick) ==
  PickFrom(mockPosts(disasterKeywords, t), pick)

\* The answers agent.app.bsky.feed.searchPosts can give: an exception, an
\* unsuccessful response, a response with a list of raw posts.
ApiThrows == [kind |-> "throw", success |-> FALSE, posts |-> <<>>]
ApiRefuses == [kind |-> "response", success |-> FALSE, posts |-> <<>>]
ApiAnswers(posts) == [kind |-> "response", success |-> TRUE, posts |-> posts]

ApiOutcomes ==
  {ApiThrows, ApiRefuses, ApiAnswers(<<>>), ApiAnswers(<<TextlessPost>>),
   ApiAnswers(<<ShelterPost>>), ApiAnswers(<<ChatPost, ShelterPost>>),
   ApiAnswers(<<TextlessPost, ChatPost>>), ApiAnswers(<<ShelterPost, AuthorlessPost>>)}

\* The try block of getBlueskyReports up to formattedPosts: whether it
\* threw, and the formatted posts.
LiveAttempt(disasterKeywords, api) ==
  IF api.kind = "throw" \/ ~api.success
  THEN [threw |-> TRUE, posts |-> <<>>]
  ELSE formatBlueskyPosts(api.posts, disasterKeywords)

\* A fallback taken only when the try block threw.
UseFallbackOnThrowOnly(live) == live.threw

\* Whether getBlueskyReports answers with fallback data: the try block
\* threw, or formattedPosts.length === 0.
UseFallback(live) == live.threw \/ live.posts = <<>>

\* The TTLs of genuine and synthetic results taken for each other.
SwappedTtl(synthetic) == IF synthetic THEN GenuineTtl ELSE FallbackTtl

\* Every cache write with the TTL of genuine results.
AlwaysGenuineTtl(synthetic) == GenuineTtl

\* The TTL getBlueskyReports caches a result with.
SocialTtl(synthetic) == IF synthetic THEN FallbackTtl ELSE GenuineTtl

\* A handler that never takes what the cache returned.
NeverHit(got) == FALSE

\* if (cachedData): arrays and objects are truthy, null is not.
CacheHit(got) == ~got.miss

\* One cacheService.set made by a handler: the key, value and TTL it passes,
\* the store's answer, and whether an exception left set.
NoWrite == [key |-> "", value |-> <<>>, ttl |-> 0, outcome |-> "none", threw |-> FALSE]

WriteOf(key, value, ttl, outcome) ==
  [key |-> key, value |-> value, ttl |-> ttl, outcome |-> outcome,
   threw |-> SetThrows(outcome)]

\* A set that leaves its row as the whole table.
StoreReplacedBySet(store, write, t) ==
  IF write.outcome = "ok"
  THEN {[key |-> write.key, value |-> write.value,
         expires_at |-> ExpiresAt(t, write.ttl)]}
  ELSE store

\* The store after that set, made at clock reading t.
StoreAfterSet(store, write, t) ==
  IF write.outcome = "ok"
  THEN Upsert(store, [key |-> write.key, value |-> write.value,
                      expires_at |-> ExpiresAt(t, write.ttl)])
  ELSE store

\* What a handler leaves when it returns: the value returned (or that an
\* exception left it), the cache write it made and the store after it.
Answer(op, key, hit, result, threw, write, store) ==
  [op |-> op, key |-> key, hit |-> hit, result |-> result, threw |-> threw,
   write |-> write, store |-> store]

\* getBlueskyReports(disasterKeywords, options), from call to return, at
\* clock reading t: got is what cacheService.get returned, live the try
\* block's attempt on the API's answer, mockData what getFallbackMockData
\* gives if called, setOutcome the store's answer to the upsert.
BlueskyCall(disasterKeywords, options, store, t, got, live, mockData, setOutcome) ==
  LET cacheKey == BlueskyCacheKey(disasterKeywords, options)
      fallback == UseFallback(live)
      value == IF fallback THEN mockData ELSE live.posts
      write == WriteOf(cacheKey, value, SocialTtl(fallback), setOutcome)
      \* a set that throws inside the try block lands in the catch, which
      \* sets the mock data; a set that throws inside the catch leaves the call
      caught == ~live.threw /\ write.threw
      rewrite == WriteOf(cacheKey, mockData, FallbackTtl, setOutcome)
  IN IF got.threw
     THEN Answer("getBlueskyReports", cacheKey, FALSE, <<>>, TRUE, NoWrite, store)
     ELSE IF CacheHit(got)
     THEN Answer("getBlueskyReports", cacheKey, TRUE, got.value, FALSE, NoWrite, store)
     ELSE IF caught
     THEN Answer("getBlueskyReports", cacheKey, FALSE, mockData, rewrite.threw,
                 rewrite, StoreAfterSet(store, rewrite, t))
     ELSE Answer("getBlueskyReports", cacheKey, FALSE, value, write.threw,
                 write, StoreAfterSet(store, write, t))

\* The set a handler made, as the store applied it at clock reading t.
AppliedAfter(app, write, t) ==
  IF write.outcome = "ok"
  THEN [app EXCEPT ![write.key] =
          [value |-> write.value, ttl |-> write.ttl, at |-> t,
           expires_at |-> ExpiresAt(t, write.ttl)]]
  ELSE app

SocialOptions == {DefaultOptions, [maxResults |-> 200, sortBy |-> "top", lang |-> "en"]}
SearchedKeywords == <<"flood">>

\* Searches asking for fewer and for more results than the cap and than the
\* API's ceiling, and a keyword that holds the separator of the cache key.
SearchOptions ==
  SocialOptions \cup {[DefaultOptions EXCEPT !.maxResults = m] : m \in {5, 50, 200}}
SearchKeywordLists ==
  SocialKeywordLists \cup EdgeKeywordLists \cup {<<"California-Wildfire">>}

\* An API answer longer than the cap, its posts of three kinds in turn.
WildfirePost ==
  RawPost("at://did:e/app.bsky.feed.post/p5", "Wildfire spreading in California", TRUE,
          "dan.bsky.social", 2)

NumberedPost(i) ==
  RawPost("at://did:n/app.bsky.feed.post/n" \o ToString(i),
          IF i % 3 = 0 THEN "flood help" ELSE IF i % 3 = 1 THEN "just chatting"
          ELSE "Need shelter near #flood area",
          TRUE, "poster" \o ToString(i) \o ".bsky.social", i)

ManyPosts == [i \in 1..(ResultCap + 1) |-> NumberedPost(i)]

\* The ways the store can fail a select, whatever it holds.
SelectFaults == {"error", "throw"}

\* What the world outside answers during one call is drawn from env: the
\* ways the store fails a select, its answers to an upsert, the answers of
\* the two feeds and of the search API, and what Math.random decides.
Selects(env, store, key) ==
  {outcome \in SelectOutcomes(store, key) :
     outcome \in SelectFaults => outcome \in env.selects}

NoApi == [kind |-> "none", success |-> FALSE, posts |-> <<>>]
NoLive == [threw |-> FALSE, posts |-> <<>>]

\* One call getBlueskyReports(disasterKeywords, options).  The API is
\* asked only on a cache miss, and Math.random (deciding among picks) only
\* when the call falls back.  agg keeps the call: when it was made, the
\* write last applied to its key before it, the answers it got, what it
\* returned, and what it returns when its cache write succeeds.
GetBlueskyReports(disasterKeywords, options, env) ==
  /\ LET cacheKey == BlueskyCacheKey(disasterKeywords, options)
     IN \E getOutcome \in Selects(env, cache, cacheKey) :
          LET got == GetReturn(getOutcome, SelectData(cache, cacheKey, getOutcome), now)
              asked == ~got.threw /\ ~CacheHit(got)
          IN \E api \in IF asked THEN env.api ELSE {NoApi} :
               LET live == IF asked THEN LiveAttempt(disasterKeywords, api) ELSE NoLive
               IN \E pick \in IF asked /\ (UseFallback(live) \/ SetThrows("error"))
                               THEN env.picks ELSE {<<>>},
                     setOutcome \in IF asked THEN env.upserts ELSE {"none"} :
                    LET mockData == getFallbackMockData(disasterKeywords, now, pick)
                        call == BlueskyCall(disasterKeywords, options, cache, now,
                                            got, live, mockData, setOutcome)
                        stored == BlueskyCall(disasterKeywords, options, cache, now,
                                              got, live, mockData,
                                              IF asked THEN "ok" ELSE "none")
                    IN /\ agg' = [op |-> call.op, key |-> call.key, at |-> now,
                                  keywords |-> disasterKeywords,
                                  options |-> options,
                                  before |-> applied[cacheKey],
                                  getOutcome |-> getOutcome, hit |-> call.hit,
                                  api |-> api,
                                  query |-> IF asked THEN BuildQuery(disasterKeywords)
                                            ELSE "",
                                  limit |-> IF asked
                                            THEN Min(options.maxResults, ApiLimitCeiling)
                                            ELSE 0,
                                  result |-> call.result, threw |-> call.threw,
                                  write |-> call.write, innerWrite |-> NoWrite,
                                  ifStored |-> stored.result]
                       /\ cache' = call.store
                       /\ applied' = AppliedAfter(applied, call.write, now)
  /\ UNCHANGED <<now, calls, scoring, inflight, crudVars>>

(***************************************************************************)
(* scrapingService: fetchRSSFeed, getLatestDisasters, getOfficialUpdates,  *)
(* getDisasterStats.                                                       *)
(***************************************************************************)
FEMA_RSS_FEEDS ==
  [disasters |-> "https://www.fema.gov/news/disasters_rss.fema",
   pressReleases |-> "https://www.fema.gov/feeds/news.rss"]

DISASTER_KEYWORDS ==
  [hurricane |-> <<"hurricane", "tropical storm", "typhoon", "cyclone">>,
   flood |-> <<"flood", "flooding", "flash flood", "river flood", "coastal flood">>,
   fire |-> <<"fire", "wildfire", "forest fire", "brush fire", "grass fire">>,
   tornado |-> <<"tornado", "tornadoes", "severe thunderstorm", "straight-line winds">>,
   earthquake |-> <<"earthquake", "seismic", "tremor", "aftershock">>,
   winter |-> <<"winter storm", "blizzard", "ice storm", "snow storm", "freeze">>,
   drought |-> <<"drought", "dry conditions", "water shortage">>,
   severe_weather |-> <<"severe weather", "thunderstorm", "hail", "damaging winds">>]

\* Date texts.  A text Date can parse is modelled as toISOString models it;
\* NullDate is no date at all (null, undefined, an absent element), NotADate
\* a text new Date() turns into an Invalid Date.
NullDate == <<>>
NotADate == <<"not a date">>

\* !isNaN(new Date(text))
IsValidDate(text) == Len(text) = 2

\* An <item> as xml2js hands it over.  title, description, link: "" when
\* the element is absent (description stands for item.description ||
\* item.summary, pubDate for item.pubDate || item.published || item.updated);
\* descriptionObject: the element carries attributes, so that xml2js (with
\* ignoreAttrs: false) gives an object in place of a string.
RawItem(title, description, link, pubDate) ==
  [title |-> title, description |-> description, descriptionObject |-> FALSE,
   link |-> link, pubDate |-> pubDate]

FloodRelease ==
  RawItem("FEMA Approves Flood Aid", "<p>Flooding relief for <b>Texas</b></p>",
          "https://www.fema.gov/pr/1", ToISOString(2 * MsPerSec))
BlankRelease == RawItem("", "", "", NullDate)
HurricaneDeclaration ==
  RawItem("Hurricane Ian", "Major disaster declaration",
          "https://www.fema.gov/disaster/1", ToISOString(MsPerSec))
UndatedWildfire == RawItem("California Wildfire", "Brush fire spreading <br", "", NotADate)
AttributedStorms ==
  [RawItem("Severe Storms", "", "", ToISOString(3 * MsPerSec))
     EXCEPT !.descriptionObject = TRUE]

WildfireDeclaration ==
  RawItem("Wildfire declared in County X", "", "https://www.fema.gov/disaster/2",
          ToISOString(2 * MsPerSec))
FireWarning ==
  RawItem("RED FLAG WARNING", "Extreme FIRE danger", "https://www.fema.gov/disaster/3",
          ToISOString(3 * MsPerSec))

PressReleasePool == {FloodRelease, BlankRelease}
DisasterPool ==
  {HurricaneDeclaration, UndatedWildfire, AttributedStorms, WildfireDeclaration,
   FireWarning}

\* What fetching one feed can meet: axios rejects (transport error, timeout,
\* a status axios refuses), a status other than 200, XML that
\* parseStringPromise rejects, a document without rss.channel or feed, or a
\* channel with its items.
FeedFailures == {"throw", "status", "malformed", "nochannel"}

FeedAnswers(items) == [kind |-> "ok", items |-> items]

FeedLists(url) ==
  IF url = FEMA_RSS_FEEDS.pressReleases
  THEN {<<>>, <<FloodRelease>>, <<BlankRelease, FloodRelease>>}
  ELSE {<<>>, <<HurricaneDeclaration>>, <<UndatedWildfire, HurricaneDeclaration>>,
        <<AttributedStorms>>, <<HurricaneDeclaration, AttributedStorms>>}

FeedOutcomes(url) ==
  {[kind |-> k, items |-> <<>>] : k \in FeedFailures}
    \cup {FeedAnswers(its) : its \in FeedLists(url)}

\* after '<': [^>]* and an optional '>' are dropped
RECURSIVE SkipTag(_)
SkipTag(str) ==
  IF str = "" THEN ""
  ELSE IF SubSeq(str, 1, 1) = ">" THEN SubSeq(str, 2, Len(str))
  ELSE SkipTag(SubSeq(str, 2, Len(str)))

\* A replace that drops closed tags only, /<[^>]*>/g: an opening that no
\* '>' follows is kept.
HasClose(str) == \E i \in 1..Len(str) : SubSeq(str, i, i) = ">"

RECURSIVE StripClosedTags(_)
StripClosedTags(str) ==
  IF str = "" THEN ""
  ELSE IF SubSeq(str, 1, 1) = "<" /\ HasClose(str)
       THEN StripClosedTags(SkipTag(SubSeq(str, 2, Len(str))))
  ELSE SubSeq(str, 1, 1) \o StripClosedTags(SubSeq(str, 2, Len(str)))

\* .replace(/<[^>]*>?/gm, '')
RECURSIVE StripTags(_)
StripTags(str) ==
  IF str = "" THEN ""
  ELSE IF SubSeq(str, 1, 1) = "<" THEN StripTags(SkipTag(SubSeq(str, 2, Len(str))))
  ELSE SubSeq(str, 1, 1) \o StripTags(SubSeq(str, 2, Len(str)))

Description(item) == StripTags(OrElse(item.description, "No description"))

\* Description of every pool item, evaluated once.
DescriptionTable ==
  [item \in PressReleasePool \cup DisasterPool |-> Description(item)]

DescriptionOf(item) ==
  IF item \in DOMAIN DescriptionTable THEN DescriptionTable[item]
  ELSE Description(item)

\* An item whose id names its position and the time only.
MapItemByPosition(item, index, feedType, t) ==
  [id |-> ToString(index) \o "_" \o ToString(t),
   title |-> OrElse(item.title, "No title"),
   description |-> DescriptionOf(item),
   link |-> OrElse(item.link, "#"),
   pubDate |-> IF item.pubDate = NullDate THEN ToISOString(t) ELSE item.pubDate,
   source |-> "FEMA " \o feedType,
   feedType |-> feedType,
   extractedAt |-> ToISOString(t)]

\* The object fetchRSSFeed maps the item at index to, at clock reading t.
MapItem(item, index, feedType, t) ==
  [id |-> feedType \o "_" \o ToString(index) \o "_" \o ToString(t),
   title |-> OrElse(item.title, "No title"),
   description |-> DescriptionOf(item),
   link |-> OrElse(item.link, "#"),
   pubDate |-> IF item.pubDate = NullDate THEN ToISOString(t) ELSE item.pubDate,
   source |-> "FEMA " \o feedType,
   feedType |-> feedType,
   extractedAt |-> ToISOString(t)]

\* Whether the try block of fetchRSSFeed throws on this answer: axios or the
\* parser rejects, or .replace is called on a description that is an object.
FetchThrows(feed) ==
  \/ feed.kind \in {"throw", "malformed"}
  \/ \E i \in DOMAIN feed.items : feed.items[i].descriptionObject

\* fetchRSSFeed without its catch.
FetchRethrows(feed, feedType, t) ==
  IF FetchThrows(feed) THEN [threw |-> TRUE, items |-> <<>>]
  ELSE [threw |-> FALSE,
        items |-> [i \in DOMAIN feed.items |->
                     MapItem(feed.items[i], i - 1, feedType, t)]]

\* fetchRSSFeed(feedUrl, feedType) on the answer feed, at clock reading t.
fetchRSSFeed(feed, feedType, t) ==
  IF FetchThrows(feed) \/ feed.kind # "ok" THEN [threw |-> FALSE, items |-> <<>>]
  ELSE [threw |-> FALSE,
        items |-> [i \in DOMAIN feed.items |->
                     MapItem(feed.items[i], i - 1, feedType, t)]]

\* `${item.title} ${item.description}`.toLowerCase()
SearchText(item) == ToLowerCase(item.title \o " " \o item.description)

\* A match that asks the whole text to be one of the words.
SomeEqual(searchText, words) ==
  \E i \in DOMAIN words : searchText = ToLowerCase(words[i])

\* words.some(word => searchText.includes(word.toLowerCase()))
SomeIncluded(searchText, words) ==
  \E i \in DOMAIN words : Includes(searchText, ToLowerCase(words[i]))

\* DISASTER_KEYWORDS[disasterType] || [disasterType]
TypeKeywords(disasterType) ==
  IF disasterType \in DOMAIN DISASTER_KEYWORDS
  THEN DISASTER_KEYWORDS[disasterType] ELSE <<disasterType>>

\* The options of getOfficialUpdates: given lists the properties the caller
\* passed, in their order; the others hold their defaults.
DefaultCount == 10
StatsCount == 100

NoOptions ==
  [given |-> <<>>, count |-> DefaultCount, disasterTypes |-> <<>>,
   keywords |-> <<>>, dateFrom |-> NullDate, states |-> <<>>]

StatsOptions == [NoOptions EXCEPT !.given = <<"count">>, !.count = StatsCount]

FloodOptions ==
  [NoOptions EXCEPT !.given = <<"count", "disasterTypes">>, !.count = 1,
                    !.disasterTypes = <<"flood", "volcano">>]

TexasOptions ==
  [NoOptions EXCEPT !.given = <<"keywords", "dateFrom", "states">>,
                    !.keywords = <<"Relief", "ian">>,
                    !.dateFrom = ToISOString(MsPerSec),
                    !.states = <<"TEXAS">>]

UpdateOptions == {NoOptions, FloodOptions, TexasOptions}

\* Queries by disaster type and by date: fires; fires since a date later
\* than every clock reading of the model; fires since the date of the
\* wildfire declaration; everything since the epoch.
Epoch == ToISOString(0)
FarFuture == ToISOString(1000 * MsPerSec)

FireOptions ==
  [NoOptions EXCEPT !.given = <<"disasterTypes">>, !.disasterTypes = <<"fire">>]

FutureFireOptions ==
  [FireOptions EXCEPT !.given = <<"disasterTypes", "dateFrom">>,
                      !.dateFrom = FarFuture]

RecentFireOptions ==
  [FutureFireOptions EXCEPT !.dateFrom = ToISOString(2 * MsPerSec)]

SinceEpochOptions == [NoOptions EXCEPT !.given = <<"dateFrom">>, !.dateFrom = Epoch]

\* The most recent fire only.
NewestFireOptions ==
  [FireOptions EXCEPT !.given = <<"count", "disasterTypes">>, !.count = 1]

\* The default query with its count written out, and the Texas query with
\* its properties written in another order.
ExplicitCountOptions == [NoOptions EXCEPT !.given = <<"count">>]
ReorderedTexasOptions == [TexasOptions EXCEPT !.given = <<"states", "keywords", "dateFrom">>]

FilterOptions ==
  UpdateOptions \cup {FireOptions, FutureFireOptions, RecentFireOptions,
                      SinceEpochOptions, NewestFireOptions,
                      ExplicitCountOptions, ReorderedTexasOptions}

\* The word lists the filters and the statistics look for.
WordLists ==
  {DISASTER_KEYWORDS[type] : type \in DOMAIN DISASTER_KEYWORDS}
    \cup UNION {{TypeKeywords(o.disasterTypes[i]) : i \in DOMAIN o.disasterTypes}
                  \cup {o.keywords, o.states} : o \in FilterOptions}

\* SomeIncluded over the texts of the pool items, evaluated once.
MentionTable ==
  [text \in {<<OrElse(item.title, "No title"), DescriptionOf(item)>> :
               item \in PressReleasePool \cup DisasterPool},
   words \in WordLists |->
     SomeIncluded(ToLowerCase(text[1] \o " " \o text[2]), words)]

Mentions(item, words) ==
  IF <<<<item.title, item.description>>, words>> \in DOMAIN MentionTable
  THEN MentionTable[<<item.title, item.description>>, words]
  ELSE SomeIncluded(SearchText(item), words)

\* JSON.stringify of a number, a string, an array of strings, a date text.
JsonString(str) == "\"" \o str \o "\""
JsonArray(strs) == "[" \o Join([i \in DOMAIN strs |-> JsonString(strs[i])], ",") \o "]"
DateText(date) == ToString(date[1]) \o "." \o ToString(date[2]) \o "Z"

JsonProperty(options, name) ==
  JsonString(name) \o ":" \o
    (IF name = "count" THEN ToString(options.count)
     ELSE IF name = "dateFrom" THEN JsonString(DateText(options.dateFrom))
     ELSE JsonArray(options[name]))

\* JSON.stringify(options)
JsonStringify(options) ==
  "{" \o Join([i \in DOMAIN options.given |->
                 JsonProperty(options, options.given[i])], ",") \o "}"

OfficialUpdatesKey(options) == "official-updates:" \o JsonStringify(options)
LatestDisastersKey(count) == "latest-disasters:" \o ToString(count)
DisasterStatsKey == "disaster-stats"

\* Filters that keep an item as soon as one of the supplied filters holds.
ApplyAnyFilter(allItems, options) ==
  LET OfType(item) ==
        \E i \in DOMAIN options.disasterTypes :
          Mentions(item, TypeKeywords(options.disasterTypes[i]))
      Since(item) ==
        /\ IsValidDate(options.dateFrom) /\ IsValidDate(item.pubDate)
        /\ ParseDate(item.pubDate) >= ParseDate(options.dateFrom)
      Kept(item) ==
        \/ Len(options.disasterTypes) > 0 /\ OfType(item)
        \/ Len(options.keywords) > 0 /\ Mentions(item, options.keywords)
        \/ Len(options.states) > 0 /\ Mentions(item, options.states)
        \/ options.dateFrom # NullDate /\ Since(item)
  IN IF options.given = <<>> \/ options.given = <<"count">> THEN allItems
     ELSE SelectSeq(allItems, Kept)

\* The filters of getOfficialUpdates, in the order they are applied.
ApplyFilters(allItems, options) ==
  LET OfType(item) ==
        \E i \in DOMAIN options.disasterTypes :
          Mentions(item, TypeKeywords(options.disasterTypes[i]))
      WithKeyword(item) == Mentions(item, options.keywords)
      InState(item) == Mentions(item, options.states)
      Since(item) ==
        /\ IsValidDate(options.dateFrom) /\ IsValidDate(item.pubDate)
        /\ ParseDate(item.pubDate) >= ParseDate(options.dateFrom)
      byType == IF Len(options.disasterTypes) > 0
                THEN SelectSeq(allItems, OfType) ELSE allItems
      byKeyword == IF Len(options.keywords) > 0
                   THEN SelectSeq(byType, WithKeyword) ELSE byType
      byState == IF Len(options.states) > 0
                 THEN SelectSeq(byKeyword, InState) ELSE byKeyword
  IN IF options.dateFrom # NullDate THEN SelectSeq(byState, Since) ELSE byState

\* .sort((a, b) => new Date(b.pubDate) - new Date(a.pubDate)) on dates that
\* all parse: a stable sort, newest first.
RECURSIVE InsertByDate(_, _)
InsertByDate(sorted, item) ==
  IF sorted = <<>> THEN <<item>>
  ELSE IF ParseDate(Head(sorted).pubDate) >= ParseDate(item.pubDate)
       THEN <<Head(sorted)>> \o InsertByDate(Tail(sorted), item)
       ELSE <<item>> \o sorted

RECURSIVE SortByDate(_)
SortByDate(items) ==
  IF items = <<>> THEN <<>>
  ELSE InsertByDate(SortByDate(SubSeq(items, 1, Len(items) - 1)),
                    items[Len(items)])

\* The orders that sort can leave the items in.  An Invalid Date makes the
\* comparator answer NaN; it is then not a consistent comparator and the
\* order is implementation-defined: any arrangement of the same items.
SortOutcomes(items) ==
  IF \A i \in DOMAIN items : IsValidDate(items[i].pubDate)
  THEN {SortByDate(items)}
  ELSE IF Len(items) <= 1 THEN {items}
  ELSE {[i \in DOMAIN items |-> items[order[i]]] :
          order \in Permutations(DOMAIN items)}

\* filteredItems.sort(...).slice(0, count): the arrays it can give.
FinalUpdates(allItems, options) ==
  {Slice(sorted, options.count) :
     sorted \in SortOutcomes(ApplyFilters(allItems, options))}

\* disasters.sort(...).slice(0, count)
LatestOf(disasters, count) ==
  {Slice(sorted, count) : sorted \in SortOutcomes(disasters)}

\* A check that never finds the array empty.
AlwaysData(items) == FALSE

\* if (allItems.length === 0), if (disasters.length === 0)
NoData(items) == items = <<>>

OfficialUpdatesTtl == 3600
LatestDisastersTtl == 1800
DisasterStatsTtl == 7200

\* getOfficialUpdates(options), from call to return, at clock reading t: got
\* is what cacheService.get returned, pressReleases and disasters what the
\* two fetchRSSFeed calls returned, finalUpdates the sorted and limited
\* array, setOutcome the store's answer to the upsert.
OfficialUpdatesCall(options, store, t, got, pressReleases, disasters, finalUpdates, setOutcome) ==
  LET cacheKey == OfficialUpdatesKey(options)
      allItems == pressReleases.items \o disasters.items
      write == WriteOf(cacheKey, finalUpdates, OfficialUpdatesTtl, setOutcome)
  IN IF got.threw
     THEN Answer("getOfficialUpdates", cacheKey, FALSE, <<>>, TRUE, NoWrite, store)
     ELSE IF CacheHit(got)
     THEN Answer("getOfficialUpdates", cacheKey, TRUE, got.value, FALSE, NoWrite, store)
     ELSE IF pressReleases.threw \/ disasters.threw \/ NoData(allItems)
     THEN Answer("getOfficialUpdates", cacheKey, FALSE, <<>>, FALSE, NoWrite, store)
     ELSE Answer("getOfficialUpdates", cacheKey, FALSE,
                 IF write.threw THEN <<>> ELSE finalUpdates, FALSE,
                 write, StoreAfterSet(store, write, t))

\* getLatestDisasters(count), from call to return.
LatestDisastersCall(count, store, t, got, disasters, latestDisasters, setOutcome) ==
  LET cacheKey == LatestDisastersKey(count)
      write == WriteOf(cacheKey, latestDisasters, LatestDisastersTtl, setOutcome)
  IN IF got.threw
     THEN Answer("getLatestDisasters", cacheKey, FALSE, <<>>, TRUE, NoWrite, store)
     ELSE IF CacheHit(got)
     THEN Answer("getLatestDisasters", cacheKey, TRUE, got.value, FALSE, NoWrite, store)
     ELSE IF disasters.threw \/ NoData(disasters.items)
     THEN Answer("getLatestDisasters", cacheKey, FALSE, <<>>, FALSE, NoWrite, store)
     ELSE Answer("getLatestDisasters", cacheKey, FALSE,
                 IF write.threw THEN <<>> ELSE latestDisasters, FALSE,
                 write, StoreAfterSet(store, write, t))

\* stats[disasterType] after allUpdates.forEach: the matching items counted,
\* latestDate replaced when it is null or the item's date is later.
RECURSIVE TypeStats(_, _)
TypeStats(allUpdates, disasterType) ==
  IF allUpdates = <<>> THEN [count |-> 0, latestDate |-> NullDate]
  ELSE LET before == TypeStats(SubSeq(allUpdates, 1, Len(allUpdates) - 1), disasterType)
           item == allUpdates[Len(allUpdates)]
       IN IF Mentions(item, DISASTER_KEYWORDS[disasterType])
          THEN [count |-> before.count + 1,
                latestDate |->
                  IF \/ before.latestDate = NullDate
                     \/ /\ IsValidDate(item.pubDate) /\ IsValidDate(before.latestDate)
                        /\ ParseDate(item.pubDate) > ParseDate(before.latestDate)
                  THEN item.pubDate ELSE before.latestDate]
          ELSE before

\* statsWithMeta
StatsOf(allUpdates, t) ==
  LET stats == [type \in DOMAIN DISASTER_KEYWORDS |-> TypeStats(allUpdates, type)]
  IN [key \in DOMAIN DISASTER_KEYWORDS \cup {"metadata"} |->
        IF key = "metadata"
        THEN [totalItems |-> Len(allUpdates),
              generatedAt |-> ToISOString(t),
              totalDisasterTypes |->
                Cardinality({type \in DOMAIN stats : stats[type].count > 0})]
        ELSE stats[key]]

\* { metadata: { error: error.message } }
StatsError == [metadata |-> [error |-> "error"]]

\* getDisasterStats(), from call to return: inner is the getOfficialUpdates
\* call it makes on a miss.
DisasterStatsCall(store, t, got, inner, setOutcome) ==
  LET statsWithMeta == StatsOf(inner.result, t)
      write == WriteOf(DisasterStatsKey, statsWithMeta, DisasterStatsTtl, setOutcome)
  IN IF got.threw
     THEN Answer("getDisasterStats", DisasterStatsKey, FALSE, StatsError, TRUE,
                 NoWrite, store)
     ELSE IF CacheHit(got)
     THEN Answer("getDisasterStats", DisasterStatsKey, TRUE, got.value, FALSE,
                 NoWrite, store)
     ELSE IF inner.threw
     THEN Answer("getDisasterStats", DisasterStatsKey, FALSE, StatsError, FALSE,
                 NoWrite, inner.store)
     ELSE Answer("getDisasterStats", DisasterStatsKey, FALSE,
                 IF write.threw THEN StatsError ELSE statsWithMeta, FALSE,
                 write, StoreAfterSet(inner.store, write, t))

NoFeed == [kind |-> "none", items |-> <<>>]

\* What a finished feed aggregation call leaves to observe: when it was made,
\* the write last applied to its key before it, the answers it got, what it
\* returned, and what it returns when its cache writes succeed.
Observed(call, t, getOutcome, feeds, innerWrite, ifStored) ==
  [op |-> call.op, key |-> call.key, at |-> t, before |-> applied[call.key],
   getOutcome |-> getOutcome, hit |-> call.hit, feeds |-> feeds,
   result |-> call.result, threw |-> call.threw, write |-> call.write,
   innerWrite |-> innerWrite, ifStored |-> ifStored]

\* One call getOfficialUpdates(options).  The feeds are fetched only on a
\* cache miss.
GetOfficialUpdates(options, env) ==
  /\ LET cacheKey == OfficialUpdatesKey(options)
     IN \E getOutcome \in Selects(env, cache, cacheKey) :
          LET got == GetReturn(getOutcome, SelectData(cache, cacheKey, getOutcome), now)
              asked == ~got.threw /\ ~CacheHit(got)
          IN \E press \in IF asked THEN env.pressReleases
                          ELSE {NoFeed},
                dis \in IF asked THEN env.disasters
                        ELSE {NoFeed} :
               LET pressReleases == fetchRSSFeed(press, "pressReleases", now)
                   disasters == fetchRSSFeed(dis, "disasters", now)
                   allItems == pressReleases.items \o disasters.items
                   stores == asked /\ ~pressReleases.threw /\ ~disasters.threw
                               /\ ~NoData(allItems)
               IN \E finalUpdates \in IF stores THEN FinalUpdates(allItems, options)
                                      ELSE {<<>>},
                     setOutcome \in IF stores THEN env.upserts ELSE {"none"} :
                    LET call == OfficialUpdatesCall(options, cache, now, got,
                                  pressReleases, disasters, finalUpdates, setOutcome)
                        stored == OfficialUpdatesCall(options, cache, now, got,
                                    pressReleases, disasters, finalUpdates,
                                    IF stores THEN "ok" ELSE "none")
                    IN /\ agg' = Observed(call, now, getOutcome,
                                          [pressReleases |-> press, disasters |-> dis,
                                           options |-> options],
                                          NoWrite, stored.result)
                       /\ cache' = call.store
                       /\ applied' = AppliedAfter(applied, call.write, now)
  /\ UNCHANGED <<now, calls, scoring, inflight, crudVars>>

\* One call getLatestDisasters(count).
GetLatestDisasters(count, env) ==
  /\ LET cacheKey == LatestDisastersKey(count)
     IN \E getOutcome \in Selects(env, cache, cacheKey) :
          LET got == GetReturn(getOutcome, SelectData(cache, cacheKey, getOutcome), now)
              asked == ~got.threw /\ ~CacheHit(got)
          IN \E dis \in IF asked THEN env.disasters
                        ELSE {NoFeed} :
               LET disasters == fetchRSSFeed(dis, "disasters", now)
                   stores == asked /\ ~disasters.threw /\ ~NoData(disasters.items)
               IN \E latestDisasters \in IF stores THEN LatestOf(disasters.items, count)
                                         ELSE {<<>>},
                     setOutcome \in IF stores THEN env.upserts ELSE {"none"} :
                    LET call == LatestDisastersCall(count, cache, now, got, disasters,
                                                    latestDisasters, setOutcome)
                        stored == LatestDisastersCall(count, cache, now, got, disasters,
                                                      latestDisasters,
                                                      IF stores THEN "ok" ELSE "none")
                    IN /\ agg' = Observed(call, now, getOutcome,
                                          [pressReleases |-> NoFeed, disasters |-> dis,
                                           options |-> [NoOptions EXCEPT !.count = count]],
                                          NoWrite, stored.result)
                       /\ cache' = call.store
                       /\ applied' = AppliedAfter(applied, call.write, now)
  /\ UNCHANGED <<now, calls, scoring, inflight, crudVars>>

\* One call getDisasterStats(), the getOfficialUpdates({ count: 100 }) it
\* makes on a miss included.
GetDisasterStats(env) ==
  /\ \E getOutcome \in Selects(env, cache, DisasterStatsKey) :
       LET got == GetReturn(getOutcome,
                            SelectData(cache, DisasterStatsKey, getOutcome), now)
           asked == ~got.threw /\ ~CacheHit(got)
           innerKey == OfficialUpdatesKey(StatsOptions)
       IN \E innerOutcome \in IF asked THEN Selects(env, cache, innerKey)
                              ELSE {"none"} :
            LET innerGot == IF asked
                            THEN GetReturn(innerOutcome,
                                   SelectData(cache, innerKey, innerOutcome), now)
                            ELSE [miss |-> TRUE, value |-> Null, threw |-> FALSE]
                fetches == asked /\ ~innerGot.threw /\ ~CacheHit(innerGot)
            IN \E press \in IF fetches THEN env.pressReleases
                            ELSE {NoFeed},
                  dis \in IF fetches THEN env.disasters
                          ELSE {NoFeed} :
                 LET pressReleases == fetchRSSFeed(press, "pressReleases", now)
                     disasters == fetchRSSFeed(dis, "disasters", now)
                     allItems == pressReleases.items \o disasters.items
                     stores == fetches /\ ~pressReleases.threw /\ ~disasters.threw
                                 /\ ~NoData(allItems)
                 IN \E finalUpdates \in IF stores
                                        THEN FinalUpdates(allItems, StatsOptions)
                                        ELSE {<<>>},
                       innerSet \in IF stores THEN env.upserts ELSE {"none"},
                       setOutcome \in IF asked THEN env.upserts ELSE {"none"} :
                      LET inner == OfficialUpdatesCall(StatsOptions, cache, now,
                                     innerGot, pressReleases, disasters,
                                     finalUpdates, innerSet)
                          call == DisasterStatsCall(cache, now, got, inner, setOutcome)
                          stored ==
                            DisasterStatsCall(cache, now, got,
                              OfficialUpdatesCall(StatsOptions, cache, now, innerGot,
                                pressReleases, disasters, finalUpdates,
                                IF stores THEN "ok" ELSE "none"),
                              IF asked THEN "ok" ELSE "none")
                      IN /\ agg' = Observed(call, now, getOutcome,
                                            [pressReleases |-> press, disasters |-> dis,
                                             options |-> StatsOptions],
                                            inner.write, stored.result)
                         /\ cache' = call.store
                         /\ applied' = AppliedAfter(
                                         AppliedAfter(applied, inner.write, now),
                                         call.write, now)
  /\ UNCHANGED <<now, calls, scoring, inflight, crudVars>>

(***************************************************************************)
(* The aggregation calls step by step: the call, the upstream requests it  *)
(* awaits, and its return.                                                 *)
(***************************************************************************)
FetchTimeoutMs == 10000

\* The clock of a call in flight advances by half the timeout.
LiveStep == FetchTimeoutMs \div 2
MaxLiveClock == MaxLiveTicks * LiveStep

FeedNames == {"pressReleases", "disasters"}

\* An axios.get awaiting its answer, and one that settled at clock reading at.
Pending == [state |-> "pending", feed |-> NoFeed, at |-> 0, timedOut |-> FALSE]

Settled(feed, at, timedOut) ==
  [state |-> "settled", feed |-> feed, at |-> at, timedOut |-> timedOut]

\* A request that no timer ever ends.
NeverTimedOut(sentAt, t) == FALSE

\* axios ends a request sent at sentAt once `timeout` ms have passed.
TimedOut(sentAt, t) == t >= sentAt + FetchTimeoutMs

\* What the rejection of axios.get is to fetchRSSFeed: an exception.
FeedTimeout == [kind |-> "throw", items |-> <<>>]

\* getOfficialUpdates(options) is called: the cache is read and, on a miss,
\* both fetchRSSFeed calls send their request.
StartOfficialUpdates(options, env) ==
  /\ inflight.pc = "idle"
  /\ now + FetchTimeoutMs <= MaxLiveClock
  /\ LET cacheKey == OfficialUpdatesKey(options)
     IN \E getOutcome \in Selects(env, cache, cacheKey) :
          LET got == GetReturn(getOutcome, SelectData(cache, cacheKey, getOutcome), now)
          IN inflight' =
               [op |-> "getOfficialUpdates",
                pc |-> IF got.threw \/ CacheHit(got) THEN "returned" ELSE "fetching",
                options |-> options, sentAt |-> now, got |-> got,
                pressReleases |-> Pending, disasters |-> Pending,
                result |-> IF CacheHit(got) THEN got.value ELSE <<>>]
  /\ UNCHANGED <<now, cache, calls, applied, scoring, agg, phase, crudVars>>

\* The endpoint of one feed answers before the timeout ends the request.
FeedResponds(name, answer) ==
  /\ inflight.op = "getOfficialUpdates" /\ inflight.pc = "fetching"
  /\ inflight[name].state = "pending"
  /\ now <= inflight.sentAt + FetchTimeoutMs
  /\ inflight' = [inflight EXCEPT ![name] = Settled(answer, now, FALSE)]
  /\ UNCHANGED <<now, cache, calls, applied, scoring, agg, phase, crudVars>>

\* The timeout of axios.get ends a request that is still unanswered.
FeedTimesOut(name) ==
  /\ inflight.op = "getOfficialUpdates" /\ inflight.pc = "fetching"
  /\ inflight[name].state = "pending"
  /\ TimedOut(inflight.sentAt, now)
  /\ inflight' = [inflight EXCEPT ![name] = Settled(FeedTimeout, now, TRUE)]
  /\ UNCHANGED <<now, cache, calls, applied, scoring, agg, phase, crudVars>>

\* A combinator that resolves with the first promise that settles.
AnySettled(call) == \E name \in FeedNames : call[name].state = "settled"

\* Promise.all over two promises that never reject: it resolves when both
\* fetchRSSFeed calls have returned.
AllSettled(call) == \A name \in FeedNames : call[name].state = "settled"

\* Promise.all resolves, both fetchRSSFeed calls having returned: the items
\* are merged, filtered, sorted, cached and returned.
MergeUpdates(env) ==
  /\ inflight.op = "getOfficialUpdates" /\ inflight.pc = "fetching"
  /\ AllSettled(inflight)
  /\ LET pressReleases == fetchRSSFeed(inflight.pressReleases.feed, "pressReleases",
                                       inflight.pressReleases.at)
         disasters == fetchRSSFeed(inflight.disasters.feed, "disasters",
                                   inflight.disasters.at)
         allItems == pressReleases.items \o disasters.items
         stores == ~pressReleases.threw /\ ~disasters.threw /\ ~NoData(allItems)
     IN \E finalUpdates \in IF stores THEN FinalUpdates(allItems, inflight.options)
                            ELSE {<<>>},
           setOutcome \in IF stores THEN env.upserts ELSE {"none"} :
          LET call == OfficialUpdatesCall(inflight.options, cache, now, inflight.got,
                        pressReleases, disasters, finalUpdates, setOutcome)
          IN /\ inflight' = [inflight EXCEPT !.pc = "returned", !.result = call.result]
             /\ cache' = call.store
             /\ applied' = AppliedAfter(applied, call.write, now)
  /\ UNCHANGED <<now, calls, scoring, agg, phase, crudVars>>

\* getBlueskyReports(disasterKeywords, options) is called: the cache is read
\* and, on a miss, searchPosts sends its request.  No timeout is given to it.
StartSearch(disasterKeywords, options, env) ==
  /\ inflight.pc = "idle"
  /\ LET cacheKey == BlueskyCacheKey(disasterKeywords, options)
     IN \E getOutcome \in Selects(env, cache, cacheKey) :
          LET got == GetReturn(getOutcome, SelectData(cache, cacheKey, getOutcome), now)
          IN inflight' =
               [op |-> "getBlueskyReports",
                pc |-> IF got.threw \/ CacheHit(got) THEN "returned" ELSE "searching",
                keywords |-> disasterKeywords, options |-> options,
                sentAt |-> now, got |-> got, api |-> NoApi,
                result |-> IF CacheHit(got) THEN got.value ELSE <<>>]
  /\ UNCHANGED <<now, cache, calls, applied, scoring, agg, phase, crudVars>>

\* The search API answers.
ApiResponds(api) ==
  /\ inflight.op = "getBlueskyReports" /\ inflight.pc = "searching"
  /\ inflight' = [inflight EXCEPT !.pc = "responded", !.api = api]
  /\ UNCHANGED <<now, cache, calls, applied, scoring, agg, phase, crudVars>>

\* The answer is formatted, or replaced by fallback data, cached and returned.
FinishSearch(env) ==
  /\ inflight.op = "getBlueskyReports" /\ inflight.pc = "responded"
  /\ LET live == LiveAttempt(inflight.keywords, inflight.api)
     IN \E pick \in IF UseFallback(live) \/ SetThrows("error") THEN env.picks
                    ELSE {<<>>},
           setOutcome \in env.upserts :
          LET mockData == getFallbackMockData(inflight.keywords, now, pick)
              call == BlueskyCall(inflight.keywords, inflight.options, cache, now,
                                  inflight.got, live, mockData, setOutcome)
          IN /\ inflight' = [inflight EXCEPT !.pc = "returned", !.result = call.result]
             /\ cache' = call.store
             /\ applied' = AppliedAfter(applied, call.write, now)
  /\ UNCHANGED <<now, calls, scoring, agg, phase, crudVars>>


\* The inputs of the aggregation calls, and the cache keys they use.
LatestCounts == {1, DefaultCount}

AggKeys ==
  {BlueskyCacheKey(ks, o) :
     ks \in SocialKeywordLists \cup EdgeKeywordLists, o \in SocialOptions}
    \cup {OfficialUpdatesKey(o) : o \in FilterOptions \cup {StatsOptions}}
    \cup {LatestDisastersKey(count) : count \in LatestCounts}
    \cup {DisasterStatsKey}

(***************************************************************************)
(* disasterRoutes: authMiddleware, createDisaster, updateDisaster,         *)
(* deleteDisaster.                                                         *)
(***************************************************************************)
\* req.headers['x-user-id'] when the header is absent
NoHeader == ""
NoUser == [id |-> "", role |-> ""]

\* authMiddleware: req.user for the two known ids, next(error) with status
\* 401 for a missing id and for any other.
authMiddleware(userid) ==
  IF userid = NoHeader THEN [ok |-> FALSE, status |-> 401, user |-> NoUser]
  ELSE IF userid = "reliefAdmin"
  THEN [ok |-> TRUE, status |-> 0, user |-> [id |-> userid, role |-> "admin"]]
  ELSE IF userid = "netrunnerX"
  THEN [ok |-> TRUE, status |-> 0, user |-> [id |-> userid, role |-> "contributor"]]
  ELSE [ok |-> FALSE, status |-> 401, user |-> NoUser]

\* !title || !description || !tags || !Array.isArray(tags) || tags.length === 0
InvalidBody(body) == body.title = "" \/ body.description = "" \/ body.tags = <<>>

\* An authorization that lets every known user edit.
AnyoneMayEdit(user, existing) == TRUE

\* user.role !== 'admin' && existing.owner_id !== user.id is the refusal.
MayEdit(user, existing) == user.role = "admin" \/ existing.owner_id = user.id

\* user.role !== 'admin' is the refusal.
MayDelete(user) == user.role = "admin"

\* { action, user_id, timestamp: new Date().toISOString() }
AuditEntry(action, user, t) ==
  [action |-> action, user_id |-> user.id, timestamp |-> ToISOString(t)]

\* An emit that sends the event twice.
EmitTwice(sent, type, payload) ==
  sent \o <<[type |-> type, payload |-> payload], [type |-> type, payload |-> payload]>>

\* socketServer.io.emit('disaster_updated', { type, payload })
Emit(sent, type, payload) == Append(sent, [type |-> type, payload |-> payload])

\* The rows of the table with this id: one or none.
DisasterRows(id) == {row \in disasterTable.rows : row.id = id}

\* A request slot: the handler and its arguments, where it stands (free,
\* updating: awaiting the update it sent, responded), what its select
\* fetched and the audit trail it prepared, the status of its response,
\* whether a handler was reached, and what it did in order: "write" for a
\* store write that succeeded, "emit", "respond" for res.status().json() or
\* send(), "next" for next(error).
NoBody == [title |-> "", description |-> "", tags |-> <<>>]
NoExisting == [owner_id |-> "", audit_trail |-> <<>>]

FreeSlot ==
  [op |-> "none", pc |-> "free", userid |-> NoHeader, id |-> 0, body |-> NoBody,
   existing |-> NoExisting, updatedAuditTrail |-> <<>>, status |-> 0,
   reached |-> FALSE, trace |-> <<>>]

Arrived(op, userid, id, body) ==
  [FreeSlot EXCEPT !.op = op, !.userid = userid, !.id = id, !.body = body]

\* The request ends with next(error): the error handler answers with status.
Refused(request, status, reached) ==
  [request EXCEPT !.pc = "responded", !.status = status, !.reached = reached,
                  !.trace = <<"next">>]

\* The request ends after its write, its emit and its response.
Served(request, status) ==
  [request EXCEPT !.pc = "responded", !.status = status, !.reached = TRUE,
                  !.trace = <<"write", "emit", "respond">>]

\* Requests take the slots in order.
CanArrive(r) ==
  /\ requests[r].pc = "free"
  /\ \A q \in DOMAIN requests : q < r => requests[q].pc # "free"

\* err.status || err.statusCode || 500 for an error of the store
StoreErrorStatus == 500

\* POST /: authMiddleware, then createDisaster from validation to response.
\* outcome is the store's answer to the insert.
createDisaster(r, userid, body, outcome) ==
  LET auth == authMiddleware(userid)
      request == Arrived("createDisaster", userid, 0, body)
      data == [id |-> disasterTable.lastId + 1, title |-> body.title,
               description |-> body.description, tags |-> body.tags,
               owner_id |-> auth.user.id,
               audit_trail |-> <<AuditEntry("create", auth.user, now)>>]
  IN /\ CanArrive(r)
     /\ IF ~auth.ok
        THEN /\ requests' = [requests EXCEPT ![r] = Refused(request, auth.status, FALSE)]
             /\ UNCHANGED <<disasterTable, events>>
        ELSE IF InvalidBody(body)
        THEN /\ requests' = [requests EXCEPT ![r] = Refused(request, 400, TRUE)]
             /\ UNCHANGED <<disasterTable, events>>
        ELSE IF outcome # "ok"
        THEN /\ requests' = [requests EXCEPT ![r] = Refused(request, StoreErrorStatus, TRUE)]
             /\ UNCHANGED <<disasterTable, events>>
        ELSE /\ disasterTable' = [rows |-> disasterTable.rows \cup {data}, lastId |-> data.id]
             /\ events' = Emit(events, "CREATE", data)
             /\ requests' = [requests EXCEPT ![r] = Served(request, 201)]
     /\ UNCHANGED <<now, cache, calls, applied, scoring, agg, phase, inflight>>

\* PUT /:id up to the update it sends: authMiddleware, the select of
\* owner_id and audit_trail, the authorization and the new audit trail.
\* outcome is the store's answer to the select; .single() answers with an
\* error when there is no such row.
updateDisasterFetch(r, userid, id, body, outcome) ==
  LET auth == authMiddleware(userid)
      request == Arrived("updateDisaster", userid, id, body)
      found == DisasterRows(id)
  IN /\ CanArrive(r)
     /\ IF ~auth.ok
        THEN requests' = [requests EXCEPT ![r] = Refused(request, auth.status, FALSE)]
        ELSE IF outcome # "ok" \/ found = {}
        THEN requests' = [requests EXCEPT ![r] = Refused(request, StoreErrorStatus, TRUE)]
        ELSE LET row == CHOOSE row \in found : TRUE
                 existing == [owner_id |-> row.owner_id, audit_trail |-> row.audit_trail]
                 newAuditEntry == AuditEntry("update", auth.user, now)
             IN IF ~MayEdit(auth.user, existing)
                THEN requests' = [requests EXCEPT ![r] = Refused(request, 403, TRUE)]
                ELSE requests' =
                       [requests EXCEPT ![r] =
                          [request EXCEPT
                             !.pc = "updating", !.reached = TRUE, !.existing = existing,
                             !.updatedAuditTrail =
                               Append(existing.audit_trail, newAuditEntry)]]
     /\ UNCHANGED <<disasterTable, events>>
     /\ UNCHANGED <<now, cache, calls, applied, scoring, agg, phase, inflight>>

\* PUT /:id from the store's answer to the update: outcome is that answer;
\* .single() answers with an error when no row was updated.
updateDisasterWrite(r, outcome) ==
  LET request == requests[r]
      found == DisasterRows(request.id)
  IN /\ request.op = "updateDisaster" /\ request.pc = "updating"
     /\ IF outcome # "ok" \/ found = {}
        THEN /\ requests' = [requests EXCEPT ![r] = Refused(request, StoreErrorStatus, TRUE)]
             /\ UNCHANGED <<disasterTable, events>>
        ELSE LET row == CHOOSE row \in found : TRUE
                 data == [row EXCEPT !.title = request.body.title,
                                     !.description = request.body.description,
                                     !.tags = request.body.tags,
                                     !.audit_trail = request.updatedAuditTrail]
             IN /\ disasterTable' = [disasterTable EXCEPT !.rows = (@ \ {row}) \cup {data}]
                /\ events' = Emit(events, "UPDATE", data)
                /\ requests' = [requests EXCEPT ![r] = Served(request, 200)]
     /\ UNCHANGED <<now, cache, calls, applied, scoring, agg, phase, inflight>>

\* DELETE /:id: authMiddleware, then deleteDisaster from its authorization
\* to its response.  outcome is the store's answer to the delete, which is
\* no error when there is no such row.
deleteDisaster(r, userid, id, outcome) ==
  LET auth == authMiddleware(userid)
      request == Arrived("deleteDisaster", userid, id, NoBody)
  IN /\ CanArrive(r)
     /\ IF ~auth.ok
        THEN /\ requests' = [requests EXCEPT ![r] = Refused(request, auth.status, FALSE)]
             /\ UNCHANGED <<disasterTable, events>>
        ELSE IF ~MayDelete(auth.user)
        THEN /\ requests' = [requests EXCEPT ![r] = Refused(request, 403, TRUE)]
             /\ UNCHANGED <<disasterTable, events>>
        ELSE IF outcome # "ok"
        THEN /\ requests' = [requests EXCEPT ![r] = Refused(request, StoreErrorStatus, TRUE)]
             /\ UNCHANGED <<disasterTable, events>>
        ELSE /\ disasterTable' = [disasterTable EXCEPT !.rows = @ \ DisasterRows(id)]
             /\ events' = Emit(events, "DELETE", [id |-> id])
             /\ requests' = [requests EXCEPT ![r] = Served(request, 204)]
     /\ UNCHANGED <<now, cache, calls, applied, scoring, agg, phase, inflight>>

\* The x-user-id headers sent: none, the two known ids, an unknown one.
UserIds == {NoHeader, "reliefAdmin", "netrunnerX", "intruder"}

\* The bodies sent: two with all their fields, one without a tag.
FloodBody == [title |-> "River flood", description |-> "Water rising", tags |-> <<"flood">>]
FireBody == [title |-> "Brush fire", description |-> "Spreading", tags |-> <<"fire">>]
Bodies == {FloodBody, [FloodBody EXCEPT !.tags = <<>>]}

\* The ids asked for: the first the store gives, and one it has not given.
DisasterIds == {1, MaxRequests + 1}

StoreAnswers == {"ok", "error"}

InitDisasters ==
  /\ disasterTable = [rows |-> {}, lastId |-> 0]
  /\ events = <<>>
  /\ requests = [r \in 1..MaxRequests |-> FreeSlot]

(***************************************************************************)
(* Specifications.                                                         *)
(***************************************************************************)
InitCache ==
  /\ now = 0
  /\ cache = {}
  /\ calls = [c \in Slots |-> Idle]
  /\ applied = [k \in Keys \cup AggKeys |->
                 IF k \in Keys THEN NotApplied ELSE [NotApplied EXCEPT !.value = <<>>]]

Init ==
  /\ InitCache
  /\ InitDisasters
  /\ scoring = NotScoring
  /\ agg = NoCall
  /\ phase = "cold"
  /\ inflight = NoneInFlight

\* One caller, one call after another, while the clock runs.
NextCache ==
  \/ \E k \in Keys : GetSelect(Sequential, k)
  \/ GetCheck(Sequential)
  \/ \E k \in Keys, v \in Values, t \in TtlSeconds : SetBegin(Sequential, k, v, t)
  \/ SetUpsert(Sequential)
  \/ Tick

SpecCache == Init /\ [][NextCache]_vars

\* Overlapping calls, each caller's steps interleaved with the others'.
NextRace ==
  \/ \E c \in Racers, k \in Keys : GetSelect(c, k)
  \/ \E c \in Racers : GetCheck(c)
  \/ \E c \in Racers, k \in Keys, v \in Values, t \in TtlSeconds : SetBegin(c, k, v, t)
  \/ \E c \in Racers : SetUpsert(c)

SpecRace == Init /\ [][NextRace]_vars

MsPerMinute == 60 * MsPerSec
MaxSocialClock == MaxSocialMinutes * MsPerMinute

\* The catalog order cut to three posts, its reverse cut to five.
TwoShuffles == {<<1, 2, 3>>, <<6, 5, 4, 3, 2>>}

\* Every answer of the world outside.
AnyEnv ==
  [selects |-> SelectFaults, upserts |-> UpsertOutcomes,
   pressReleases |-> FeedOutcomes(FEMA_RSS_FEEDS.pressReleases),
   disasters |-> FeedOutcomes(FEMA_RSS_FEEDS.disasters),
   api |-> ApiOutcomes, picks |-> TwoShuffles]

\* Every answer of the feeds and the search API, of a store that fails
\* selects in both ways and upserts in one.
AggEnv == [AnyEnv EXCEPT !.upserts = {"ok", "error"}]

\* A working store, working feeds and a working search API.
WorkingEnv ==
  [selects |-> {}, upserts |-> {"ok"},
   pressReleases |-> {FeedAnswers(<<FloodRelease>>)},
   disasters |-> {FeedAnswers(<<HurricaneDeclaration>>)},
   api |-> {ApiAnswers(<<ChatPost, ShelterPost>>)}, picks |-> TwoShuffles]

\* Social searches one after another meet a search API that is down, finds
\* nothing or has recovered, and a store that answers or fails.
SocialEnv ==
  [AnyEnv EXCEPT !.selects = {"error"}, !.upserts = {"ok", "error"},
                 !.api = {ApiThrows, ApiAnswers(<<>>), ApiAnswers(<<ShelterPost>>),
                          ApiAnswers(<<ChatPost, ShelterPost>>)}]

\* Social searches one after another while the clock runs.
NextSocial ==
  \/ GetBlueskyReports(SearchedKeywords, DefaultOptions, SocialEnv)
       /\ UNCHANGED phase
  \/ TickBy(MsPerMinute, MaxSocialClock)

SpecSocial == Init /\ [][NextSocial]_vars

\* The search API failing, every shuffle drawn.
FallbackEnv ==
  [AnyEnv EXCEPT !.api = {ApiThrows, ApiRefuses, ApiAnswers(<<>>)},
                 !.picks = Shuffles]

\* One social search on an empty cache table.
NextFallback ==
  /\ agg = NoCall
  /\ \E ks \in SocialKeywordLists \cup EdgeKeywordLists :
       GetBlueskyReports(ks, DefaultOptions, FallbackEnv)
  /\ UNCHANGED phase

SpecFallback == Init /\ [][NextFallback]_vars

\* The answers one social search can meet on an empty cache table.
SearchEnv ==
  [selects |-> {}, upserts |-> {"ok", "error"}, pressReleases |-> {}, disasters |-> {},
   api |-> ApiOutcomes \cup {ApiAnswers(<<WildfirePost>>), ApiAnswers(ManyPosts),
                           ApiAnswers(<<TextlessPost>> \o ManyPosts)},
   picks |-> TwoShuffles]

\* One social search on an empty cache table.
NextSearch ==
  /\ agg = NoCall
  /\ \E ks \in SearchKeywordLists, options \in SearchOptions :
       GetBlueskyReports(ks, options, SearchEnv)
  /\ UNCHANGED phase

SpecSearch == Init /\ [][NextSearch]_vars

\* The feeds of a query answered on an empty cache table by a working store.
FilterDisasterLists ==
  {<<>>, <<WildfireDeclaration>>, <<HurricaneDeclaration, WildfireDeclaration, FireWarning>>,
   <<UndatedWildfire, WildfireDeclaration>>, <<UndatedWildfire, HurricaneDeclaration>>,
   <<AttributedStorms>>, <<HurricaneDeclaration, UndatedWildfire, FireWarning>>}

FilterEnv ==
  [selects |-> {}, upserts |-> {"ok"},
   pressReleases |-> FeedOutcomes(FEMA_RSS_FEEDS.pressReleases),
   disasters |-> {[kind |-> k, items |-> <<>>] : k \in FeedFailures}
                   \cup {FeedAnswers(its) : its \in FilterDisasterLists},
   api |-> {}, picks |-> {}]

\* One getOfficialUpdates call on an empty cache table, at any clock reading.
NextFilter ==
  /\ agg = NoCall
  /\ \/ \E options \in FilterOptions :
          GetOfficialUpdates(options, FilterEnv) /\ UNCHANGED phase
     \/ TickBy(MsPerSec, MaxClock)

SpecFilter == Init /\ [][NextFilter]_vars

\* Two getBlueskyReports calls for one key that overlap: one is followed
\* step by step, the other runs from its cache read to its return while the
\* first awaits the search API.  The store answers every request.
OverlapEnv ==
  [selects |-> {}, upserts |-> {"ok"}, pressReleases |-> {}, disasters |-> {},
   api |-> {ApiThrows, ApiAnswers(<<>>), ApiAnswers(<<ShelterPost>>)},
   picks |-> {<<1, 2, 3>>}]

Awaiting == inflight.op = "getBlueskyReports" /\ inflight.pc \in {"searching", "responded"}

NextOverlap ==
  \/ StartSearch(SearchedKeywords, DefaultOptions, OverlapEnv)
  \/ \E api \in OverlapEnv.api : ApiResponds(api)
  \/ FinishSearch(OverlapEnv)
  \/ /\ Awaiting /\ agg = NoCall
     /\ GetBlueskyReports(SearchedKeywords, DefaultOptions, OverlapEnv)
     /\ UNCHANGED phase
  \/ TickBy(MsPerMinute, MaxSocialClock)

SpecOverlap == Init /\ [][NextOverlap]_vars

\* The descriptions fetched: every text of up to MaxMarkupLen characters
\* over tag delimiters, a letter and a space.
MarkupChars == {"<", ">", "b", " "}
Descriptions == {Join(cs, "") : cs \in SeqsUpTo(MarkupChars, MaxMarkupLen)}

\* One fetchRSSFeed call on a channel whose only item has the description.
FetchDescribed(description) ==
  LET feed == FeedAnswers(<<RawItem("Notice", description, "", NullDate)>>)
  IN /\ agg = NoCall
     /\ agg' = [op |-> "fetchRSSFeed", feed |-> feed,
                items |-> fetchRSSFeed(feed, "pressReleases", now).items]
     /\ UNCHANGED <<now, cache, calls, applied, scoring, phase, inflight, crudVars>>

NextMarkup ==
  \/ \E description \in Descriptions : FetchDescribed(description)
  \/ agg = NoCall /\ TickBy(MsPerSec, MaxClock)

SpecMarkup == Init /\ [][NextMarkup]_vars

\* One getDisasterStats call on an empty cache table, at any clock reading.
NextStats ==
  /\ agg = NoCall
  /\ \/ GetDisasterStats(FilterEnv) /\ UNCHANGED phase
     \/ TickBy(MsPerSec, MaxClock)

SpecStats == Init /\ [][NextStats]_vars

\* Requests on /disasters, a pending update interleaved with the others.
NextDisasters ==
  \/ \E r \in 1..MaxRequests, userid \in UserIds, body \in Bodies, outcome \in StoreAnswers :
       createDisaster(r, userid, body, outcome)
  \/ \E r \in 1..MaxRequests, userid \in UserIds, id \in DisasterIds, outcome \in StoreAnswers :
       updateDisasterFetch(r, userid, id, FireBody, outcome)
  \/ \E r \in 1..MaxRequests, outcome \in StoreAnswers : updateDisasterWrite(r, outcome)
  \/ \E r \in 1..MaxRequests, userid \in UserIds, id \in DisasterIds, outcome \in StoreAnswers :
       deleteDisaster(r, userid, id, outcome)

SpecDisasters == Init /\ [][NextDisasters]_vars

\* The answers a call in flight can get.
LiveEnv ==
  [selects |-> {}, upserts |-> {"ok", "error"},
   pressReleases |-> {[kind |-> "status", items |-> <<>>], FeedAnswers(<<FloodRelease>>)},
   disasters |-> {[kind |-> "malformed", items |-> <<>>],
                  FeedAnswers(<<HurricaneDeclaration>>), FeedAnswers(<<AttributedStorms>>)},
   api |-> {ApiThrows, ApiAnswers(<<>>), ApiAnswers(<<ChatPost, ShelterPost>>)},
   picks |-> TwoShuffles]

\* A timer of the event loop is due: a request that is pending past its timeout.
TimerDue ==
  /\ inflight.op = "getOfficialUpdates" /\ inflight.pc = "fetching"
  /\ \E name \in FeedNames :
       inflight[name].state = "pending" /\ TimedOut(inflight.sentAt, now)

\* The clock advances, never past a timer that is due.
TickLive == ~TimerDue /\ TickBy(LiveStep, MaxLiveClock)

\* One aggregation call in flight while the clock runs: its upstreams answer
\* or never do.
NextLive ==
  \/ StartOfficialUpdates(NoOptions, LiveEnv)
  \/ \E name \in FeedNames : \E answer \in LiveEnv[name] : FeedResponds(name, answer)
  \/ \E name \in FeedNames : FeedTimesOut(name)
  \/ MergeUpdates(LiveEnv)
  \/ StartSearch(SearchedKeywords, DefaultOptions, LiveEnv)
  \/ \E api \in LiveEnv.api : ApiResponds(api)
  \/ FinishSearch(LiveEnv)
  \/ TickLive

\* What every step of a call in flight changes.
liveVars == <<now, inflight>>

\* The clock runs, a timer that is due fires, and a continuation whose
\* promise settled is run; no upstream is bound to answer.
SpecLive ==
  /\ Init /\ [][NextLive]_vars
  /\ WF_liveVars(TickLive)
  /\ WF_liveVars(\E name \in FeedNames : FeedTimesOut(name))
  /\ WF_liveVars(MergeUpdates(LiveEnv))
  /\ WF_liveVars(FinishSearch(LiveEnv))


MsPerHalfHour == 30 * MsPerMinute
MaxAggClock == MaxAggHalfHours * MsPerHalfHour

\* Feeds that answer without items, fail, or answer with one item, and a
\* working store.
EmptyEnv ==
  [selects |-> {}, upserts |-> {"ok"},
   pressReleases |-> {FeedAnswers(<<>>), [kind |-> "status", items |-> <<>>],
                      FeedAnswers(<<FloodRelease>>)},
   disasters |-> {FeedAnswers(<<>>), [kind |-> "throw", items |-> <<>>],
                  FeedAnswers(<<HurricaneDeclaration>>)},
   api |-> {}, picks |-> {}]

\* The call just made is the first of the run, which ingested nothing or
\* something, or the one that follows it.
Follows ==
  phase' = IF phase # "cold" THEN "after " \o phase
           ELSE IF fetchRSSFeed(agg'.feeds.pressReleases, "pressReleases", now).items
                     \o fetchRSSFeed(agg'.feeds.disasters, "disasters", now).items = <<>>
                THEN "empty"
                ELSE "warm"

\* Two calls with the same query, one after the other, while the clock runs.
NextEmpty ==
  \/ /\ phase = "cold" \/ (phase \in {"empty", "warm"} /\ agg.op = "getOfficialUpdates")
     /\ GetOfficialUpdates(NoOptions, EmptyEnv) /\ Follows
  \/ /\ phase = "cold" \/ (phase \in {"empty", "warm"} /\ agg.op = "getLatestDisasters")
     /\ GetLatestDisasters(DefaultCount, EmptyEnv) /\ Follows
  \/ phase \in {"cold", "empty", "warm"} /\ TickBy(MsPerHalfHour, MaxAggClock)

SpecEmpty == Init /\ [][NextEmpty]_vars

\* getDisasterStats on a cold cache while both feeds fail, then, as the
\* clock runs, calls that find the feeds working again.  The store may
\* refuse the first call's upsert and fail the select of a later call.
DegradedEnv ==
  [selects |-> {}, upserts |-> {"ok", "error"},
   pressReleases |-> {[kind |-> "throw", items |-> <<>>], [kind |-> "status", items |-> <<>>]},
   disasters |-> {[kind |-> "throw", items |-> <<>>], [kind |-> "malformed", items |-> <<>>]},
   api |-> {}, picks |-> {}]

RecoveredEnv ==
  [selects |-> {"error"}, upserts |-> {"ok"},
   pressReleases |-> {FeedAnswers(<<FloodRelease>>)},
   disasters |-> {FeedAnswers(<<HurricaneDeclaration>>)},
   api |-> {}, picks |-> {}]

MaxStatsClock == MaxStatsHalfHours * MsPerHalfHour

NextDegraded ==
  \/ phase = "cold" /\ GetDisasterStats(DegradedEnv) /\ phase' = "degraded"
  \/ /\ phase \in {"degraded", "later"} /\ now > 0
     /\ GetDisasterStats(RecoveredEnv) /\ phase' = "later"
  \/ phase # "cold" /\ TickBy(MsPerHalfHour, MaxStatsClock)

SpecDegraded == Init /\ [][NextDegraded]_vars

\* A run of aggregation calls: on the cold cache table, at most one call
\* answered by working upstreams warms it; then, while the clock runs, one
\* call meets every answer.
Turns == {"warming", "observed"}

Turn(kind) ==
  IF kind = "warming"
  THEN phase = "cold" /\ now = 0 /\ phase' = "warm"
  ELSE phase # "done" /\ phase' = "done"

EnvOf(kind) == IF kind = "warming" THEN WorkingEnv ELSE AggEnv

NextAgg ==
  \/ \E kind \in Turns, options \in UpdateOptions :
       Turn(kind) /\ GetOfficialUpdates(options, EnvOf(kind))
  \/ \E kind \in Turns, count \in LatestCounts :
       Turn(kind) /\ GetLatestDisasters(count, EnvOf(kind))
  \/ \E kind \in Turns : Turn(kind) /\ GetDisasterStats(EnvOf(kind))
  \/ \E kind \in Turns :
       Turn(kind) /\ GetBlueskyReports(SearchedKeywords, DefaultOptions, EnvOf(kind))
  \/ phase # "done" /\ TickBy(MsPerHalfHour, MaxAggClock)

SpecAgg == Init /\ [][NextAgg]_vars

\* One call calculateRelevanceScore(text, keywords).
Score ==
  /\ scoring.score = NotScored
  /\ scoring' = [scoring EXCEPT
                   !.score = calculateRelevanceScore(scoring.text, scoring.keywords)]
  /\ UNCHANGED <<cacheVars, agg, phase, inflight, crudVars>>

InitScore ==
  /\ InitCache
  /\ InitDisasters
  /\ agg = NoCall
  /\ phase = "cold"
  /\ inflight = NoneInFlight
  /\ \E t \in Texts, ks \in KeywordLists :
       scoring = [text |-> t, keywords |-> ks, score |-> NotScored]

NextScore == Score

SpecScore == InitScore /\ [][NextScore]_vars

(***************************************************************************)
(* Claims about cacheService.                                              *)
(***************************************************************************)
DoneGet(c) == calls[c].op = "get" /\ calls[c].pc = "done"
DoneSet(c) == calls[c].op = "set" /\ calls[c].pc = "done"

\* C1: after set(k, v, ttl) at time t0, with no later set on k, get(k)
\* returns v at every time t <= t0 + ttl seconds and a miss at every later
\* time, the row staying in the store.  (t0 is the clock reading set takes.)
C1_ValueThroughTtlInclusive ==
  LET g == calls[Sequential]
      a == applied[g.key]
  IN (DoneGet(Sequential) /\ g.sel = "row") =>
       /\ g.doneAt <= a.at + a.ttl * MsPerSec => g.result = a.value
       /\ g.doneAt > a.at + a.ttl * MsPerSec => g.result = Null
       /\ RowsOf(cache, g.key) # {}

\* What the code does at the boundary: the entry is served strictly before
\* t0 + ttl seconds and is a miss from that instant on.
CacheExpiryIsStrict ==
  LET g == calls[Sequential]
      a == applied[g.key]
  IN (DoneGet(Sequential) /\ g.sel = "row") =>
       /\ g.doneAt < a.at + a.ttl * MsPerSec => g.result = a.value
       /\ g.doneAt >= a.at + a.ttl * MsPerSec => g.result = Null
       /\ RowsOf(cache, g.key) # {}

\* C2: get never throws; it returns the stored value of an unexpired row or
\* a miss, and a store error (any code, or an exception) is a miss.
C2_GetFailsSoft ==
  \A c \in Slots :
    DoneGet(c) =>
      /\ ~calls[c].threw
      /\ \/ calls[c].result = Null
         \/ /\ calls[c].sel = "row"
            /\ calls[c].result = calls[c].data.value
            /\ ParseDate(calls[c].data.expires_at) > calls[c].doneAt
      /\ calls[c].sel \in {"error", "throw", "PGRST116"} => calls[c].result = Null

\* C2 witness: the store fails a get while the key holds an unexpired row.
C2_Witness ==
  /\ DoneGet(Sequential)
  /\ calls[Sequential].sel \in {"error", "throw"}
  /\ IsApplied(applied[calls[Sequential].key])
  /\ ParseDate(applied[calls[Sequential].key].expires_at) > calls[Sequential].doneAt
  /\ calls[Sequential].result = Null

\* C4: under any interleaving of overlapping sets and gets the store holds at
\* most one row per key, that row is the one of the upsert applied last, and
\* a get observes a miss or the value and expiry of one single set.
C4_LastWriteWins ==
  /\ \A k \in Keys : Cardinality(RowsOf(cache, k)) <= 1
  /\ \A k \in Keys :
       IsApplied(applied[k]) =>
         RowsOf(cache, k) = {[key |-> k, value |-> applied[k].value,
                              expires_at |-> applied[k].expires_at]}
  /\ \A c \in Racers :
       (calls[c].op = "get" /\ calls[c].sel = "row") =>
         \E s \in Racers :
           /\ calls[s].op = "set" /\ calls[s].key = calls[c].key
           /\ calls[s].value = calls[c].data.value
           /\ calls[s].expires_at = calls[c].data.expires_at
  /\ \A c \in Racers :
       DoneGet(c) => calls[c].result \in {Null, calls[c].data.value}

\* C4 witness: two overlapping sets on one key, applied in the opposite
\* order of their start, and a get that saw the first applied.
C4_Witness ==
  \E k \in Keys :
    /\ DoneSet(1) /\ DoneSet(2) /\ DoneGet(3)
    /\ calls[1].key = k /\ calls[2].key = k /\ calls[3].key = k
    /\ calls[1].sel = "ok" /\ calls[2].sel = "ok"
    /\ calls[1].value # calls[2].value /\ calls[1].ttl # calls[2].ttl
    /\ applied[k].value = calls[1].value
    /\ calls[3].result = calls[2].value

(***************************************************************************)
(* Claims about calculateRelevanceScore.                                   *)
(***************************************************************************)
Scored == scoring.score # NotScored

\* The score is an integer of 0..100: nothing is subtracted and the sum is
\* capped.
ScoreInRange == Scored => scoring.score \in 0..ScoreCap

\* C7: the score is in [0,100] for any text and any keyword list; with an
\* empty keyword list it comes from the indicator terms only; on the empty
\* string it is 0.
C7_ScoreRangeAndEmptyText ==
  Scored =>
    /\ scoring.score \in 0..ScoreCap
    /\ scoring.keywords = <<>> =>
         scoring.score = Min(ScoreCap,
             TermScore(ToLowerCase(scoring.text), emergencyTerms, EmergencyWeight)
           + TermScore(ToLowerCase(scoring.text), locationTerms, LocationWeight)
           + TermScore(ToLowerCase(scoring.text), resourceTerms, ResourceWeight))
    /\ scoring.text = "" => scoring.score = 0

\* The terms of a list present in the text, each once.
TermsPresent(text, terms) ==
  LET lowerText == ToLowerCase(text)
  IN {term \in {terms[i] : i \in DOMAIN terms} : Includes(lowerText, term)}

\* Whether the text holds the keyword behind this prefix, case ignored.
Found(text, keyword, prefix) ==
  Includes(ToLowerCase(text), prefix \o ToLowerCase(keyword))

\* What a text holds: how many terms of each list, and which keywords of
\* the pool plainly and as hashtag.
PresenceOf(text) ==
  [emergency |-> Cardinality(TermsPresent(text, emergencyTerms)),
   location |-> Cardinality(TermsPresent(text, locationTerms)),
   resource |-> Cardinality(TermsPresent(text, resourceTerms)),
   plain |-> {keyword \in KeywordPool : Found(text, keyword, "")},
   hashtag |-> {keyword \in KeywordPool : Found(text, keyword, "#")}]

\* The same, computed once for each text of the pool.
PresenceTable == [text \in Texts |-> PresenceOf(text)]

Presence(text) ==
  IF text \in DOMAIN PresenceTable THEN PresenceTable[text] ELSE PresenceOf(text)

\* The entries of the keyword list found in the text with this prefix.
EntriesFound(text, keywords, prefix) ==
  {i \in DOMAIN keywords :
     IF keywords[i] \in KeywordPool
     THEN keywords[i] \in (IF prefix = "" THEN Presence(text).plain ELSE Presence(text).hashtag)
     ELSE Found(text, keywords[i], prefix)}

\* C22: the score is the smaller of 100 and 20 for each keyword entry found
\* as a substring, 10 for each found in hashtag form, 15, 10 and 8 for each
\* distinct emergency, location and resource term present; a term counts
\* once, however many keywords there are and however often it occurs.
C22_ScoreIsCappedWeightedCount ==
  Scored =>
    scoring.score =
      Min(100,
          20 * Cardinality(EntriesFound(scoring.text, scoring.keywords, ""))
        + 10 * Cardinality(EntriesFound(scoring.text, scoring.keywords, "#"))
        + 15 * Presence(scoring.text).emergency
        + 10 * Presence(scoring.text).location
        + 8 * Presence(scoring.text).resource)

\* C22 witness: a text that holds one emergency term twice, scored with two
\* keywords it does not contain: 15.
C22_Witness ==
  /\ Scored
  /\ scoring.text = "shelter shelter"
  /\ Len(scoring.keywords) = 2
  /\ EntriesFound(scoring.text, scoring.keywords, "") = {}
  /\ scoring.score = 15


\* On the empty string every keyword that is not itself empty, and every
\* indicator term, misses: the score is 20 for each empty keyword.
EmptyTextScoresEmptyKeywords ==
  (Scored /\ scoring.text = "") =>
    scoring.score = Min(ScoreCap,
       KeywordWeight * Cardinality({i \in DOMAIN scoring.keywords :
                                      scoring.keywords[i] = ""}))

(***************************************************************************)
(* Claims about the aggregation operations.                                *)
(***************************************************************************)
Called == agg.op # "none"
IsBluesky == agg.op = "getBlueskyReports"
IsOfficial == agg.op = "getOfficialUpdates"

\* post.isMockData, undefined on a post that has no such property
IsSynthetic(post) == "isMockData" \in DOMAIN post /\ post.isMockData
AllSynthetic(posts) == \A i \in DOMAIN posts : IsSynthetic(posts[i])
NoneSynthetic(posts) == \A i \in DOMAIN posts : ~IsSynthetic(posts[i])

WriteFailed(write) == write.outcome \notin {"none", "ok"}

\* C3: cacheService.set never throws, and whichever of the four aggregation
\* operations makes a cache write that fails returns the value it returns
\* when the write succeeds.
C3_FailedWriteKeepsResult ==
  (Called /\ (WriteFailed(agg.write) \/ WriteFailed(agg.innerWrite))) =>
    /\ ~agg.write.threw /\ ~agg.innerWrite.threw
    /\ ~agg.threw
    /\ agg.result = agg.ifStored

\* C3 witness: getDisasterStats computed statistics over fetched items and
\* the store refused to keep them.
C3_Witness ==
  /\ agg.op = "getDisasterStats" /\ ~agg.hit
  /\ agg.write.outcome = "error"
  /\ agg.result = agg.write.value
  /\ agg.result.metadata.totalItems > 0
  /\ RowsOf(cache, agg.key) = {}

\* C5: none of getLatestDisasters, getOfficialUpdates, getDisasterStats and
\* getBlueskyReports throws, whatever the cache, the feeds and the search
\* API answer: each returns its array, or its statistics object.
C5_AggregationNeverThrows ==
  Called =>
    /\ ~agg.threw
    /\ IF agg.op = "getDisasterStats"
       THEN "metadata" \in DOMAIN agg.result
       ELSE DOMAIN agg.result = 1..Len(agg.result)

\* C5 witness: a social search whose cache read failed although the key held
\* a row, and whose API answer carried a post without author.
C5_Witness ==
  /\ IsBluesky
  /\ agg.getOutcome \in SelectFaults
  /\ IsApplied(agg.before)
  /\ agg.api.kind = "response" /\ agg.api.success
  /\ \E i \in DOMAIN agg.api.posts : ~agg.api.posts[i].hasAuthor
  /\ ~agg.threw /\ agg.result # <<>>

\* Whether fetching a feed succeeded: the feed answered with a channel and
\* every item of it could be mapped.
FeedSucceeded(feed) ==
  /\ feed.kind = "ok"
  /\ \A i \in DOMAIN feed.items : ~feed.items[i].descriptionObject

\* item is what the feed's item at some index was mapped to at time t
ComesFrom(item, feed, feedType, t) ==
  /\ item.feedType = feedType
  /\ FeedSucceeded(feed)
  /\ \E j \in DOMAIN feed.items :
       /\ item.id = feedType \o "_" \o ToString(j - 1) \o "_" \o ToString(t)
       /\ item.title = OrElse(feed.items[j].title, "No title")

ItemsOf(feed) == IF FeedSucceeded(feed) THEN Len(feed.items) ELSE 0

\* C6: on a cache miss getOfficialUpdates does not throw whichever of the
\* two feeds fail; every item it returns comes from a feed that was fetched
\* successfully, and (no filter given, fewer items than the count) all items
\* of the feeds that succeeded are returned.
C6_FailedFeedsContributeNothing ==
  (IsOfficial /\ ~agg.hit) =>
    /\ ~agg.threw
    /\ \A i \in DOMAIN agg.result :
         \/ ComesFrom(agg.result[i], agg.feeds.pressReleases, "pressReleases", agg.at)
         \/ ComesFrom(agg.result[i], agg.feeds.disasters, "disasters", agg.at)
    /\ agg.feeds.options = NoOptions =>
         /\ Len(agg.result) = ItemsOf(agg.feeds.pressReleases)
                                + ItemsOf(agg.feeds.disasters)
         /\ \A i, j \in DOMAIN agg.result : i # j => agg.result[i].id # agg.result[j].id

\* C6 witness: the disasters feed failed and both press releases are returned.
C6_Witness ==
  /\ IsOfficial /\ ~agg.hit
  /\ agg.feeds.options = NoOptions
  /\ agg.feeds.disasters.kind \in {"throw", "status", "malformed"}
  /\ Len(agg.feeds.pressReleases.items) = 2
  /\ Len(agg.result) = 2

\* C8: when the cache misses and the search API throws, getBlueskyReports
\* returns 3 to 5 posts, distinct entries of the 6-entry catalog, all flagged
\* synthetic, each containing the keyword when one keyword was given, and
\* sets exactly that sequence under the constructed key with a TTL of 60 s;
\* the row the store keeps, when it keeps one, is that one.
C8_FallbackOnApiThrow ==
  (IsBluesky /\ ~agg.hit /\ agg.api.kind = "throw") =>
    LET catalog == mockPosts(agg.keywords, agg.at)
        result == agg.result
    IN /\ Len(result) \in 3..5
       /\ Len(catalog) = 6
       /\ \A i \in DOMAIN result : \E j \in DOMAIN catalog : result[i] = catalog[j]
       /\ \A i, j \in DOMAIN result : i # j => result[i].id # result[j].id
       /\ AllSynthetic(result)
       /\ Len(agg.keywords) = 1 =>
            \A i \in DOMAIN result : Includes(result[i].post, agg.keywords[1])
       /\ agg.write.key = "bluesky:" \o Join(agg.keywords, "-") \o ":latest:en"
       /\ agg.write.value = result
       /\ agg.write.ttl = 60
       /\ agg.write.outcome = "ok" =>
            RowsOf(cache, agg.write.key) =
              {[key |-> agg.write.key, value |-> result,
                expires_at |-> ToISOString(agg.at + 60 * MsPerSec)]}

\* C8 witness: the API threw on ["flood"], five posts were returned, the
\* last catalog entry first, and the store kept them.
C8_Witness ==
  /\ IsBluesky /\ ~agg.hit /\ agg.api.kind = "throw"
  /\ agg.keywords = <<"flood">>
  /\ Len(agg.result) = 5
  /\ agg.result[1].id = "mock-info-6"
  /\ agg.write.outcome = "ok"

\* Whether the live attempt fails: the API call throws or answers without
\* success, normalisation throws (a post with text but without author), or
\* no post with a text is left.
LiveFails(api) ==
  \/ api.kind = "throw"
  \/ ~api.success
  \/ \E i \in DOMAIN api.posts : api.posts[i].text # "" /\ ~api.posts[i].hasAuthor
  \/ \A i \in DOMAIN api.posts : api.posts[i].text = ""

\* C9: on a cache miss getBlueskyReports returns synthetic posts if and only
\* if the live attempt failed (it threw, the API answered without success,
\* or no usable post came out of normalisation); every sequence returned is
\* wholly synthetic or wholly genuine, and a post made from an API record is
\* not flagged synthetic.
C9_SyntheticIffLiveFails ==
  IsBluesky =>
    /\ AllSynthetic(agg.result) \/ NoneSynthetic(agg.result)
    /\ ~agg.hit =>
         /\ agg.result # <<>>
         /\ AllSynthetic(agg.result) <=> LiveFails(agg.api)
         /\ ~LiveFails(agg.api) =>
              \A i \in DOMAIN agg.result :
                /\ ~IsSynthetic(agg.result[i])
                /\ \E j \in DOMAIN agg.api.posts :
                     /\ agg.result[i].id = agg.api.posts[j].uri
                     /\ agg.result[i].post = agg.api.posts[j].text

\* C9 witness: the API answered with posts none of which has a text, and the
\* search returned synthetic posts.
C9_Witness ==
  /\ IsBluesky /\ ~agg.hit
  /\ agg.api.kind = "response" /\ agg.api.success
  /\ agg.api.posts # <<>>
  /\ AllSynthetic(agg.result) /\ Len(agg.result) >= 3

\* The instant the write kept last for the call's key expires: 60 s after a
\* synthetic result was written, 180 s after a genuine one.
ExpiryOf(write) ==
  write.at + (IF AllSynthetic(write.value) THEN 60 ELSE 180) * MsPerSec

\* The API has recovered: it answers with success and a post that can be used.
Recovered(api) == api.kind = "response" /\ ~LiveFails(api)

TtlMatchesResult ==
  agg.write.outcome # "none" =>
    /\ agg.write.value = agg.result
    /\ agg.write.ttl = IF AllSynthetic(agg.result) THEN 60 ELSE 180

RetriesAfterFallbackExpired ==
  (IsApplied(agg.before) /\ AllSynthetic(agg.before.value)
     /\ agg.at >= ExpiryOf(agg.before)) =>
    /\ agg.api.kind # "none"
    /\ Recovered(agg.api) => (agg.result # <<>> /\ NoneSynthetic(agg.result))

\* C10 as stated: fallback results are cached for 60 s and genuine ones for
\* 180 s; every call made before the result cached last for its key expires
\* performs no live API call; the first call after a cached fallback result
\* expired calls the API, and returns genuine posts when the API recovered.
C10_NoLiveCallWithinTtl ==
  IsBluesky =>
    /\ TtlMatchesResult
    /\ (IsApplied(agg.before) /\ agg.at < ExpiryOf(agg.before)) =>
         agg.api.kind = "none"
    /\ RetriesAfterFallbackExpired

\* C10, amended: as above, the calls that perform no live API call being
\* those made before the expiry whose cache read the store answered; they
\* return the cached result.  (A read the store fails is a miss.)
C10_NoLiveCallWhenReadSucceeds ==
  IsBluesky =>
    /\ TtlMatchesResult
    /\ (IsApplied(agg.before) /\ agg.at < ExpiryOf(agg.before)
          /\ agg.getOutcome \notin SelectFaults) =>
         /\ agg.api.kind = "none"
         /\ agg.result = agg.before.value
    /\ RetriesAfterFallbackExpired

\* C10 witness: a fallback result was cached, it expired, and the call made
\* at that instant asked the recovered API and returned genuine posts.
C10_Witness ==
  /\ IsBluesky
  /\ IsApplied(agg.before) /\ AllSynthetic(agg.before.value)
  /\ agg.at = agg.before.at + 60 * MsPerSec
  /\ agg.api.kind = "response"
  /\ agg.result # <<>> /\ NoneSynthetic(agg.result)
  /\ agg.write.ttl = 180


(***************************************************************************)
(* Claims about getOfficialUpdates and fetchRSSFeed.                       *)
(***************************************************************************)
\* The call asked no feed.
FetchedNoFeed == agg.feeds.pressReleases = NoFeed /\ agg.feeds.disasters = NoFeed

\* The call is made before the result stored last under its key expires.
WithinTtlOfLastResult ==
  IsApplied(agg.before) /\ agg.at < ParseDate(agg.before.expires_at)

\* A call that ingests no item stores nothing; one that ingests items sets
\* what it returns, for one hour.
StoresWhatItIngested ==
  (IsOfficial /\ ~agg.hit) =>
    IF ItemsOf(agg.feeds.pressReleases) + ItemsOf(agg.feeds.disasters) = 0
    THEN agg.result = <<>> /\ agg.write = NoWrite
    ELSE /\ agg.write.key = agg.key /\ agg.write.value = agg.result
         /\ agg.write.ttl = 3600

\* C11 as stated: a getOfficialUpdates call that follows a call with the same
\* query, before the result the first one stored expires, is a cache hit: it
\* fetches no feed and returns the sequence the first call returned.
C11_SecondCallIsPureHit ==
  (IsOfficial /\ WithinTtlOfLastResult) =>
    /\ agg.hit /\ FetchedNoFeed
    /\ agg.result = agg.before.value

\* C11, amended: the second call is such a hit when the first call stored a
\* result and the store answers the second call's cache read.  (A failed read
\* is a miss and the feeds are fetched again; a call that ingested no item
\* stored nothing.)
C11_SecondCallIsHitWhenReadSucceeds ==
  /\ (IsOfficial /\ WithinTtlOfLastResult /\ agg.getOutcome \notin SelectFaults) =>
       /\ agg.hit /\ FetchedNoFeed
       /\ agg.result = agg.before.value
  /\ StoresWhatItIngested

\* C11 witness: half an hour after a call stored two items, a call with the
\* same query returned them without fetching a feed.
C11_Witness ==
  /\ IsOfficial /\ agg.hit /\ FetchedNoFeed
  /\ IsApplied(agg.before)
  /\ agg.at = agg.before.at + 30 * 60 * MsPerSec
  /\ agg.result = agg.before.value /\ Len(agg.result) = 2

\* The items the call ingested: what fetchRSSFeed made of the two answers.
Ingested ==
  fetchRSSFeed(agg.feeds.pressReleases, "pressReleases", agg.at).items
    \o fetchRSSFeed(agg.feeds.disasters, "disasters", agg.at).items

\* item's title and description, lower-cased, contain one of the words.
ContainsSome(item, words) ==
  \E i \in DOMAIN words :
    Includes(ToLowerCase(item.title \o " " \o item.description), ToLowerCase(words[i]))

\* item satisfies every filter the query supplies: a synonym of one of the
\* requested types, one of the keywords, one of the states, and a date not
\* before dateFrom (a date that does not parse is not compared here).
SatisfiesAll(item, options) ==
  /\ options.disasterTypes # <<>> =>
       \E i \in DOMAIN options.disasterTypes :
         ContainsSome(item, IF options.disasterTypes[i] \in DOMAIN DISASTER_KEYWORDS
                            THEN DISASTER_KEYWORDS[options.disasterTypes[i]]
                            ELSE <<options.disasterTypes[i]>>)
  /\ options.keywords # <<>> => ContainsSome(item, options.keywords)
  /\ options.states # <<>> => ContainsSome(item, options.states)
  /\ options.dateFrom # NullDate =>
       /\ IsValidDate(item.pubDate) /\ IsValidDate(options.dateFrom)
       /\ ParseDate(item.pubDate) >= ParseDate(options.dateFrom)

\* C12: on a cache miss getOfficialUpdates returns, sorted and cut to count,
\* exactly the ingested items that satisfy every supplied filter (one match
\* suffices within a filter, all filters must hold); a query for fires since
\* a date in the future returns nothing, no item being dated in the future.
C12_FiltersAreConjunctive ==
  (IsOfficial /\ ~agg.hit) =>
    LET options == agg.feeds.options
        Passes(item) == SatisfiesAll(item, options)
        expected == SelectSeq(Ingested, Passes)
    IN /\ agg.result \in {Slice(sorted, options.count) : sorted \in SortOutcomes(expected)}
       /\ (/\ options.disasterTypes = <<"fire">> /\ IsValidDate(options.dateFrom)
           /\ ParseDate(options.dateFrom) > agg.at
           /\ \A i \in DOMAIN Ingested :
                IsValidDate(Ingested[i].pubDate) =>
                  ParseDate(Ingested[i].pubDate) <= agg.at) => agg.result = <<>>

\* C12 witness: two fire items published earlier were ingested and the query
\* for fires since a date in the future returned nothing.
C12_Witness ==
  /\ IsOfficial /\ ~agg.hit
  /\ agg.feeds.options = FutureFireOptions
  /\ \A i \in DOMAIN Ingested :
       IsValidDate(Ingested[i].pubDate) /\ ParseDate(Ingested[i].pubDate) <= agg.at
  /\ Len(SelectSeq(Ingested, LAMBDA item : ContainsSome(item, DISASTER_KEYWORDS.fire))) = 2
  /\ agg.result = <<>>

\* text contains, whatever the case of its letters, a synonym of the type.
HasSynonym(text, type) ==
  \E k \in DOMAIN DISASTER_KEYWORDS[type] :
    Includes(ToLowerCase(text), DISASTER_KEYWORDS[type][k])

\* The call returned the item with this id.
InResult(id) == \E i \in DOMAIN agg.result : agg.result[i].id = id

\* C13: with disasterTypes = ["fire"] and nothing else asked, an ingested item
\* is returned if and only if its title, a space and its description contain
\* a synonym of fire, whatever the case of the letters; the item titled
\* "Wildfire declared in County X" is returned.
C13_TypeMatchIsSubstringMatch ==
  (IsOfficial /\ ~agg.hit /\ agg.feeds.options = FireOptions) =>
    \A i \in DOMAIN Ingested :
      /\ InResult(Ingested[i].id) <=>
           HasSynonym(Ingested[i].title \o " " \o Ingested[i].description, "fire")
      /\ Ingested[i].title = "Wildfire declared in County X" => InResult(Ingested[i].id)

\* C13 witness: of a hurricane declaration, the wildfire declaration and a
\* warning written in capitals, the query for fires returned the last two.
C13_Witness ==
  /\ IsOfficial /\ ~agg.hit /\ agg.feeds.options = FireOptions
  /\ agg.feeds.disasters.items = <<HurricaneDeclaration, WildfireDeclaration, FireWarning>>
  /\ Len(agg.result) = 2
  /\ agg.result[1].title = "RED FLAG WARNING"
  /\ agg.result[2].title = "Wildfire declared in County X"

\* The instant an item counts as published at when an unparsable date is
\* taken for the ingestion timestamp.
PublishedOrIngested(item) ==
  IF IsValidDate(item.pubDate) THEN ParseDate(item.pubDate)
  ELSE ParseDate(item.extractedAt)

\* A date bound drops every item whose date does not parse: the comparison
\* of an Invalid Date with the bound is false.
UnparsableDateFailsDateBound ==
  (IsOfficial /\ ~agg.hit /\ agg.feeds.options.dateFrom # NullDate) =>
    \A i \in DOMAIN agg.result : IsValidDate(agg.result[i].pubDate)

\* C14: an ingested item whose date does not parse is returned whenever the
\* same item dated at its ingestion would be (only the cut to count can leave
\* it out), and the result is ordered newest first with such an item placed
\* at its ingestion timestamp.
C14_UnparsableDateNeverDropped ==
  (IsOfficial /\ ~agg.hit) =>
    LET options == agg.feeds.options
    IN /\ \A i \in DOMAIN Ingested :
            LET item == Ingested[i]
                asIngested == [item EXCEPT !.pubDate = item.extractedAt]
            IN (~IsValidDate(item.pubDate)
                  /\ ApplyFilters(<<asIngested>>, options) # <<>>) =>
                 (InResult(item.id) \/ Len(agg.result) = options.count)
       /\ \A i, j \in DOMAIN agg.result :
            i < j => PublishedOrIngested(agg.result[i])
                       >= PublishedOrIngested(agg.result[j])

(***************************************************************************)
(* Claims about the social search.                                         *)
(***************************************************************************)
\* A miss on ["flood"] that the API answered with the two posts.
ShelterAndChatSearched ==
  /\ IsBluesky /\ ~agg.hit
  /\ agg.keywords = <<"flood">>
  /\ agg.api = ApiAnswers(<<ChatPost, ShelterPost>>)

\* The post asking for shelter scores 63 (keyword 20, hashtag 10, shelter 15,
\* near 10, need 8) and comes first; "just chatting" scores 10, for the
\* location term "at" inside "chatting".
ShelterFirstChatScoresTen ==
  ShelterAndChatSearched =>
    /\ Len(agg.result) = 2
    /\ agg.result[1].post = "Need shelter near #flood area"
    /\ agg.result[1].relevanceScore = 63
    /\ agg.result[2].post = "just chatting"
    /\ agg.result[2].relevanceScore = 10

\* C15: for ["flood"] and an API answer of the posts "Need shelter near
\* #flood area" and "just chatting", the first scores at least 55, the
\* second 0, and the first is returned before the second.
C15_ShelterOutranksChat ==
  ShelterAndChatSearched =>
    /\ Len(agg.result) = 2
    /\ agg.result[1].post = "Need shelter near #flood area"
    /\ agg.result[1].relevanceScore >= 55
    /\ agg.result[2].post = "just chatting"
    /\ agg.result[2].relevanceScore = 0

\* C16: genuine posts are returned highest relevanceScore first and at most
\* 25 of them, whatever maxResults asked for; the API is asked for
\* min(maxResults, 100) posts.
C16_SortedAndCappedAt25 ==
  (IsBluesky /\ ~agg.hit) =>
    /\ agg.limit = IF agg.options.maxResults < 100 THEN agg.options.maxResults ELSE 100
    /\ ~AllSynthetic(agg.result) =>
         /\ Len(agg.result) <= 25
         /\ \A i, j \in DOMAIN agg.result :
              i < j => agg.result[i].relevanceScore >= agg.result[j].relevanceScore

\* C16 witness: 200 results were asked for, the API was asked for 100 and
\* answered 26 posts, of which the 25 returned begin with the best and do not
\* end with it.
C16_Witness ==
  /\ IsBluesky /\ ~agg.hit
  /\ agg.options.maxResults = 200 /\ agg.limit = 100
  /\ Len(agg.api.posts) = 26
  /\ Len(agg.result) = 25 /\ NoneSynthetic(agg.result)
  /\ agg.result[1].relevanceScore > agg.result[25].relevanceScore

\* The keys of the four operations, as the queries of the model make them.
OfficialKeysTellQueriesApart ==
  \A o1, o2 \in FilterOptions \cup {StatsOptions} :
    OfficialUpdatesKey(o1) = OfficialUpdatesKey(o2) => o1 = o2

\* C17: two calls that use the same cache key compute the same value from the
\* same upstream answer: two social searches whose keyword lists and options
\* make the same key format the same API answer into the same posts, and
\* two getOfficialUpdates queries with the same key are the same query.
C17_KeyDeterminesValue ==
  /\ OfficialKeysTellQueriesApart
  /\ (IsBluesky /\ ~agg.hit /\ agg.api.kind = "response") =>
       \A ks \in SearchKeywordLists, o \in SearchOptions :
         BlueskyCacheKey(ks, o) = agg.key =>
           LiveAttempt(ks, agg.api) = LiveAttempt(agg.keywords, agg.api)

(***************************************************************************)
(* Claims about the calls in flight                                        *)
(***************************************************************************)
FetchingUpdates == inflight.op = "getOfficialUpdates" /\ inflight.pc = "fetching"

UpdatesReturned == inflight.op = "getOfficialUpdates" /\ inflight.pc = "returned"

\* Every item of a feed that answered well is in the returned list.
RespondingFeedsKept ==
  \A name \in FeedNames :
    LET request == inflight[name]
    IN FeedSucceeded(request.feed) =>
         \A j \in DOMAIN request.feed.items :
           \E i \in DOMAIN inflight.result :
             inflight.result[i] = MapItem(request.feed.items[j], j - 1, name, request.at)

\* No request of a call was still pending later than the timeout allows.
RequestsEndByTimeout ==
  FetchingUpdates =>
    \A name \in FeedNames :
      inflight[name].state = "pending" => now <= inflight.sentAt + FetchTimeoutMs

\* Some request of the call is still awaiting its answer.
SomePending == \E name \in FeedNames : inflight[name].state = "pending"

\* While a fetch is in flight nothing was merged: no result, no cache row.
NothingMergedWhilePending ==
  (FetchingUpdates /\ SomePending) => (inflight.result = <<>> /\ cache = {})

\* A step that writes the cache or returns the result is taken with both
\* fetches settled.
MergesAfterBothSettled ==
  (inflight.op = "getOfficialUpdates" /\ inflight.pc = "fetching"
     /\ (cache' # cache \/ inflight'.pc = "returned")) => ~SomePending

\* A fetch that settles leaves the other request as it is.
SettlesAlone ==
  \A name \in FeedNames :
    (FetchingUpdates /\ inflight[name].state = "pending"
       /\ inflight'[name].state = "settled") =>
      \A other \in FeedNames \ {name} : inflight'[other] = inflight[other]

\* C27: both fetches of a call are in flight together from its start; the
\* merge, the returned result and the cache write come only once both have
\* settled, by an answer, a failure or the timeout; a fetch that settles,
\* however it does, leaves the other as it is, and the items of a feed that
\* answered well are all among the items merged.
C27_MergeAfterBothSettled ==
  /\ [](NothingMergedWhilePending /\ (UpdatesReturned => RespondingFeedsKept))
  /\ [][MergesAfterBothSettled /\ SettlesAlone]_vars
  /\ [][(inflight.pc = "idle" /\ inflight'.pc = "fetching") =>
          \A name \in FeedNames : inflight'[name].state = "pending"]_vars

\* C27 witness: the disasters fetch failed first, the press releases feed
\* answered a clock step later, and the call returned the press release and
\* cached it.
C27_Witness ==
  /\ UpdatesReturned
  /\ ~FeedSucceeded(inflight.disasters.feed) /\ ~inflight.disasters.timedOut
  /\ FeedSucceeded(inflight.pressReleases.feed)
  /\ inflight.disasters.at < inflight.pressReleases.at
  /\ Len(inflight.result) = 1 /\ cache # {}


\* C18: each feed request of getOfficialUpdates is ended by its timeout, so
\* a call that is fetching eventually returns whether or not the endpoints
\* answer, and it returns every item of each feed that did answer.
C18_UnresponsiveFeedCannotBlock ==
  /\ [](UpdatesReturned => RespondingFeedsKept)
  /\ []RequestsEndByTimeout
  /\ FetchingUpdates ~> UpdatesReturned

\* A call returned the press release although the disasters feed never answered.
C18_Witness ==
  /\ UpdatesReturned
  /\ inflight.disasters.timedOut
  /\ FeedSucceeded(inflight.pressReleases.feed)
  /\ Len(inflight.result) = 1
  /\ inflight.result[1].title = FloodRelease.title


Searching == inflight.op = "getBlueskyReports" /\ inflight.pc = "searching"

SearchReturned == inflight.op = "getBlueskyReports" /\ inflight.pc = "returned"

\* C19 (as stated): the call of the search API is bounded by a timeout, so
\* a getBlueskyReports call that awaits the search API eventually returns
\* even when the API never answers.
C19_SearchAlwaysReturns == Searching ~> SearchReturned

\* What the code does ensure: a call whose search was answered, well or
\* with an error, returns.
AnsweredSearchReturns ==
  (inflight.op = "getBlueskyReports" /\ inflight.pc = "responded") ~> SearchReturned

\* The search is still awaited when the clock has run as far as it goes.
SearchAwaitedForever == Searching /\ now = MaxLiveClock


(***************************************************************************)
(* Claims about fetchRSSFeed                                               *)
(***************************************************************************)
\* The feed answers a getOfficialUpdates call fetched.
FetchedFeeds ==
  IF agg.op = "getOfficialUpdates" /\ ~agg.hit
  THEN {<<name, agg.feeds[name]>> : name \in FeedNames}
  ELSE {}

\* items holds one normalized item per item of feed, in the order of feed.
OnePerSourceItem(items, feed, feedType) ==
  /\ Len(items) = Len(feed.items)
  /\ \A i \in DOMAIN items :
       /\ items[i].id = feedType \o "_" \o ToString(i - 1) \o "_" \o ToString(agg.at)
       /\ items[i].title = OrElse(feed.items[i].title, "No title")
       /\ items[i].feedType = feedType

\* C20 (as stated): fetchRSSFeed never throws, returns the empty sequence
\* when the fetch fails or the document has no channel, and returns one
\* normalized item per source item, in source order, on every well-formed
\* document.
C20_FetchNeverThrowsOnePerItem ==
  \A fetched \in FetchedFeeds :
    LET feed == fetched[2]
        got == fetchRSSFeed(feed, fetched[1], agg.at)
    IN /\ ~got.threw
       /\ feed.kind # "ok" => got.items = <<>>
       /\ feed.kind = "ok" => OnePerSourceItem(got.items, feed, fetched[1])

\* What the code does ensure: it never throws, every failure gives the empty
\* sequence, and a document all of whose items can be mapped gives one item
\* per source item.
FetchFailsSoft ==
  \A fetched \in FetchedFeeds :
    LET feed == fetched[2]
        got == fetchRSSFeed(feed, fetched[1], agg.at)
    IN /\ ~got.threw
       /\ ~FeedSucceeded(feed) => got.items = <<>>
       /\ FeedSucceeded(feed) => OnePerSourceItem(got.items, feed, fetched[1])

\* A well-formed document with one item gave the empty sequence.
WellFormedFeedLost ==
  \E fetched \in FetchedFeeds :
    /\ fetched[2].kind = "ok" /\ Len(fetched[2].items) = 1
    /\ fetchRSSFeed(fetched[2], fetched[1], agg.at).items = <<>>


(***************************************************************************)
(* Claims about the order and the size of the feed results                 *)
(***************************************************************************)
\* a was published before b, both dates being dates.
DatedBefore(a, b) ==
  /\ IsValidDate(a.pubDate) /\ IsValidDate(b.pubDate)
  /\ ParseDate(a.pubDate) < ParseDate(b.pubDate)

\* No item of the sequence stands before one published later.
NewestFirst(items) ==
  \A i, j \in DOMAIN items : i < j => ~DatedBefore(items[i], items[j])

\* A miss of getOfficialUpdates or getLatestDisasters that returned its array.
SortedAndCut ==
  agg.op \in {"getOfficialUpdates", "getLatestDisasters"} /\ ~agg.hit /\ ~agg.threw

\* The ingested items that pass the filters of the call.
Passing == SelectSeq(Ingested, LAMBDA item : SatisfiesAll(item, agg.feeds.options))

\* The result has at most count items and, when more than count pass, holds
\* count of them, none published before an item that was left out.
CountMostRecent ==
  /\ Len(agg.result) <= agg.feeds.options.count
  /\ Len(Passing) > agg.feeds.options.count =>
       /\ Len(agg.result) = agg.feeds.options.count
       /\ \A i \in DOMAIN Passing, j \in DOMAIN agg.result :
            InResult(Passing[i].id) \/ ~DatedBefore(agg.result[j], Passing[i])

\* C21 (as stated): on a cache miss the returned sequence is ordered by
\* publication date, newest first, has at most count items, and holds the
\* count most recent items when more than count pass the filters.
C21_NewestFirstCutToCount == SortedAndCut => (NewestFirst(agg.result) /\ CountMostRecent)

\* What the code does ensure: the size, always; the order and the choice of
\* the items kept, when the date of every item that passes is a date.
NewestFirstWhenDatesParse ==
  SortedAndCut =>
    /\ Len(agg.result) <= agg.feeds.options.count
    /\ (\A i \in DOMAIN Passing : IsValidDate(Passing[i].pubDate)) =>
         (NewestFirst(agg.result) /\ CountMostRecent)

\* The sort met a date that is no date and left an older item before a newer.
OlderBeforeNewer ==
  /\ SortedAndCut /\ ~NewestFirst(agg.result)
  /\ agg.feeds.disasters.items = <<HurricaneDeclaration, UndatedWildfire, FireWarning>>

\* More items passed than count, all dated, and the newest was returned.
CutToNewest ==
  /\ SortedAndCut /\ Len(Passing) > agg.feeds.options.count
  /\ \A i \in DOMAIN Passing : IsValidDate(Passing[i].pubDate)
  /\ Len(agg.result) = 1 /\ agg.result[1].title = FireWarning.title


\* A miss of getBlueskyReports that returned posts of the live response.
LiveReturned == IsBluesky /\ ~agg.hit /\ agg.result # <<>> /\ NoneSynthetic(agg.result)

\* The raw results of the API answer that have a text body.
WithTextBody == SelectSeq(agg.api.posts, LAMBDA raw : raw.text # "")

TextlessDroppedAlone ==
  /\ LiveReturned /\ agg.api.posts = <<TextlessPost, ChatPost>>
  /\ Len(agg.result) = 1 /\ agg.result[1].post = ChatPost.text


(***************************************************************************)
(* Claims about the search query                                           *)
(***************************************************************************)
\* A miss of getBlueskyReports: the query was built and sent.
Queried == IsBluesky /\ ~agg.hit

\* The quoted phrase of the keywords, then each keyword as a hashtag.
PhraseOrHashtags(keywords) ==
  "\"" \o Join(keywords, " ") \o "\""
    \o Join([i \in DOMAIN keywords |-> " OR #" \o keywords[i]], "")

\* C24 (as stated): for two keywords or more the query is the quoted joined
\* phrase OR'd with each keyword in hashtag form, and nothing else; for one
\* keyword k it is '#k OR k'.
C24_QueryIsPhraseOrHashtags ==
  Queried =>
    /\ Len(agg.keywords) >= 2 => agg.query = PhraseOrHashtags(agg.keywords)
    /\ Len(agg.keywords) = 1 =>
         agg.query = "#" \o agg.keywords[1] \o " OR " \o agg.keywords[1]

\* What the code builds: for two keywords or more the same, followed by the
\* joined phrase once more, unquoted.
QueryEndsWithBarePhrase ==
  Queried =>
    /\ Len(agg.keywords) >= 2 =>
         agg.query = PhraseOrHashtags(agg.keywords) \o " OR " \o Join(agg.keywords, " ")
    /\ Len(agg.keywords) = 1 =>
         agg.query = "#" \o agg.keywords[1] \o " OR " \o agg.keywords[1]

\* The query of the keywords California, Wildfire as it was sent.
TwoKeywordQuery ==
  /\ Queried /\ agg.keywords = <<"California", "Wildfire">>
  /\ agg.query = "\"California Wildfire\" OR #California OR #Wildfire OR California Wildfire"


(***************************************************************************)
(* Claims about the fallback texts                                         *)
(***************************************************************************)
\* The keyword that fills the primary and the secondary slot of the catalog
\* texts: the first and the second keyword, or a fixed word where the list
\* has none or an empty one.
PrimarySlot(keywords) ==
  IF Len(keywords) >= 1 /\ keywords[1] # "" THEN keywords[1] ELSE "disaster"

SecondarySlot(keywords) ==
  IF Len(keywords) >= 2 /\ keywords[2] # "" THEN keywords[2] ELSE "emergency"

\* The text of the catalog entry with this id in another run with these
\* keywords, made at clock reading t.
TextInRun(id, keywords, t) ==
  LET catalog == mockPosts(keywords, t)
  IN catalog[CHOOSE j \in DOMAIN catalog : catalog[j].id = id].post

\* The text names the primary keyword as a hashtag and, for the entry with a
\* secondary slot, ends with the secondary keyword as a hashtag.
SlotsFilled(entry, keywords) ==
  /\ Includes(entry.post, "#" \o PrimarySlot(keywords))
  /\ entry.id = "mock-volunteer-3" =>
       LET tail == " #volunteer #" \o SecondarySlot(keywords)
       IN /\ Len(entry.post) >= Len(tail)
          /\ SubSeq(entry.post, Len(entry.post) - Len(tail) + 1, Len(entry.post)) = tail

TwoKeywords(keywords) == Len(keywords) = 2 /\ keywords[1] # keywords[2]

Swapped(keywords) == <<keywords[2], keywords[1]>>

\* C25: the query and the fallback texts depend on the ordered keyword list
\* alone: a run builds the query of its keywords, every fallback post has
\* the text its catalog entry has in a run made a minute later, with the
\* first keyword in the primary slot and the second in the secondary slot;
\* with the two keywords swapped the slots are filled the other way round
\* and the texts and the query differ.
C25_TextsFollowKeywordOrder ==
  (Queried /\ AllSynthetic(agg.result)) =>
    /\ agg.query = BuildQuery(agg.keywords)
    /\ \A i \in DOMAIN agg.result :
         /\ agg.result[i].post =
              TextInRun(agg.result[i].id, agg.keywords, agg.at + MsPerMinute)
         /\ SlotsFilled(agg.result[i], agg.keywords)
    /\ TwoKeywords(agg.keywords) =>
         /\ BuildQuery(Swapped(agg.keywords)) # agg.query
         /\ \A i \in DOMAIN agg.result :
              /\ TextInRun(agg.result[i].id, Swapped(agg.keywords), agg.at)
                   # agg.result[i].post
              /\ Includes(TextInRun(agg.result[i].id, Swapped(agg.keywords), agg.at),
                          "#" \o agg.keywords[2])

\* C25 witness: the fallback of California, Wildfire returned the entry with
\* both slots, California in the first and Wildfire in the second.
C25_Witness ==
  /\ Queried /\ AllSynthetic(agg.result) /\ agg.result # <<>>
  /\ agg.keywords = <<"California", "Wildfire">>
  /\ \E i \in DOMAIN agg.result :
       /\ agg.result[i].id = "mock-volunteer-3"
       /\ Includes(agg.result[i].post, "#California relief")
       /\ Includes(agg.result[i].post, "#volunteer #Wildfire")


(***************************************************************************)
(* Claims about the cache key of getOfficialUpdates                        *)
(***************************************************************************)
\* The values the call works with, after the defaults are applied.
Effective(options) ==
  [count |-> options.count, disasterTypes |-> options.disasterTypes,
   keywords |-> options.keywords, dateFrom |-> options.dateFrom,
   states |-> options.states]

\* C26 (as stated): the key is a canonical serialization of the query: a
\* query with the same effective values as the one of the call, whatever the
\* order of its properties and whether or not a default is written out, has
\* the key of the call, and a query with other effective values has not.
C26_KeyIsCanonical ==
  IsOfficial =>
    \A other \in FilterOptions :
      (Effective(other) = Effective(agg.feeds.options))
        <=> (OfficialUpdatesKey(other) = agg.key)

\* What the code does ensure: queries with different effective values have
\* different keys, and a key is that of one way of writing the query only.
KeyTellsQueriesApart ==
  IsOfficial =>
    \A other \in FilterOptions :
      (OfficialUpdatesKey(other) = agg.key) => other = agg.feeds.options

\* The default query with count: 10 written out was stored under a key of
\* its own.
DefaultQuerySecondKey ==
  /\ IsOfficial /\ ~agg.hit /\ agg.feeds.options = ExplicitCountOptions
  /\ agg.write.outcome = "ok"
  /\ agg.key = "official-updates:{\"count\":10}"
  /\ OfficialUpdatesKey(NoOptions) = "official-updates:{}"
  /\ Effective(NoOptions) = Effective(ExplicitCountOptions)


\* No two items of the sequence have the same id.
DistinctIds(items) == \A i, j \in DOMAIN items : i # j => items[i].id # items[j].id

\* C28: item ids are unique within a batch: the items one fetchRSSFeed call
\* returns have distinct ids, and so have the items of the two feeds merged
\* in one getOfficialUpdates call and those of its result.
C28_IdsUniqueInBatch ==
  (IsOfficial /\ ~agg.hit) =>
    /\ \A fetched \in FetchedFeeds :
         DistinctIds(fetchRSSFeed(fetched[2], fetched[1], agg.at).items)
    /\ DistinctIds(Ingested)
    /\ DistinctIds(agg.result)

\* C28 witness: both feeds answered, ingested at the same instant, and the
\* result holds the first item of each: their ids differ in the feed type
\* only.
C28_Witness ==
  /\ IsOfficial /\ ~agg.hit
  /\ InResult("pressReleases_0_" \o ToString(agg.at))
  /\ InResult("disasters_0_" \o ToString(agg.at))
  /\ \E i \in DOMAIN agg.result : agg.result[i].id = "disasters_1_" \o ToString(agg.at)


(***************************************************************************)
(* Claims about an ingestion that finds nothing                            *)
(***************************************************************************)
\* A miss of getOfficialUpdates or getLatestDisasters whose feeds yielded no
\* item.
IngestedNothing ==
  agg.op \in {"getOfficialUpdates", "getLatestDisasters"} /\ ~agg.hit /\ Ingested = <<>>

\* C29: when the feeds yield no item the call returns the empty sequence
\* without an error and writes nothing to the cache: the cache table is
\* still empty after it, and the next call with the same query, finding no
\* row, asks the feeds again.
C29_EmptyIngestionNotCached ==
  /\ IngestedNothing => (agg.result = <<>> /\ ~agg.threw /\ agg.write = NoWrite)
  /\ phase = "empty" => (IngestedNothing /\ cache = {})
  /\ phase = "after empty" =>
       /\ ~agg.hit /\ ~IsApplied(agg.before)
       /\ agg.feeds.disasters # NoFeed
       /\ agg.result = agg.ifStored

\* C29 witness: a call that ingested nothing was followed, half an hour
\* later, by a call with the same query that ingested two items and returned
\* them.
C29_Witness ==
  /\ phase = "after empty" /\ IsOfficial
  /\ agg.at = MsPerHalfHour
  /\ Len(Ingested) = 2 /\ Len(agg.result) = 2
  /\ agg.write.outcome = "ok"


(***************************************************************************)
(* Claims about getDisasterStats                                           *)
(***************************************************************************)
\* A miss of getDisasterStats that returned statistics.
StatsComputed ==
  agg.op = "getDisasterStats" /\ ~agg.hit /\ ~agg.threw /\ agg.result # StatsError

\* The items the statistics were computed over: what the inner
\* getOfficialUpdates({ count: 100 }) returned.
Examined == agg.innerWrite.value

\* The examined items whose title and description contain a synonym of type.
OfType(type) ==
  SelectSeq(Examined, LAMBDA item : ContainsSome(item, DISASTER_KEYWORDS[type]))

\* date is the latest publication date among the items: that of one of
\* them, and none of them was published after it.
IsLatestOf(date, items) ==
  /\ \E i \in DOMAIN items : items[i].pubDate = date
  /\ \A i \in DOMAIN items :
       IsValidDate(items[i].pubDate) =>
         (IsValidDate(date) /\ ParseDate(date) >= ParseDate(items[i].pubDate))

\* The counts of the statistics and their metadata.
CountsAndMetadata ==
  /\ \A type \in DOMAIN DISASTER_KEYWORDS :
       agg.result[type].count = Len(OfType(type))
  /\ agg.result.metadata.totalItems = Len(Examined)
  /\ agg.result.metadata.totalDisasterTypes =
       Cardinality({type \in DOMAIN DISASTER_KEYWORDS : Len(OfType(type)) > 0})

\* C30 (as stated): on a cache miss getDisasterStats gives for every
\* taxonomy key the number of examined items that contain a synonym of the
\* key and the latest publication date among them, null when there is none,
\* and in its metadata the number of items examined and the number of keys
\* with a count above 0.
C30_StatsCountAndLatestDate ==
  StatsComputed =>
    /\ CountsAndMetadata
    /\ \A type \in DOMAIN DISASTER_KEYWORDS :
         IF OfType(type) = <<>> THEN agg.result[type].latestDate = NullDate
         ELSE IsLatestOf(agg.result[type].latestDate, OfType(type))

\* What the code does ensure: the counts and the metadata, always; the
\* latest date, for a key none of whose items has a date that does not parse.
StatsHoldWhenDatesParse ==
  StatsComputed =>
    /\ CountsAndMetadata
    /\ \A type \in DOMAIN DISASTER_KEYWORDS :
         IF OfType(type) = <<>> THEN agg.result[type].latestDate = NullDate
         ELSE (\A i \in DOMAIN OfType(type) : IsValidDate(OfType(type)[i].pubDate)) =>
                IsLatestOf(agg.result[type].latestDate, OfType(type))

\* Two fire items were examined, the first with a date that does not parse:
\* the latest date of fire is that text, not the date of the second.
LatestDateStuck ==
  /\ StatsComputed
  /\ agg.feeds.disasters.items = <<UndatedWildfire, WildfireDeclaration>>
  /\ agg.result.fire.count = 2
  /\ agg.result.fire.latestDate = NotADate

\* Statistics over three dated items, one of them counted under two keys.
StatsOverDatedItems ==
  /\ StatsComputed /\ Len(Examined) = 4
  /\ \A i \in DOMAIN Examined : IsValidDate(Examined[i].pubDate)
  /\ agg.result.fire.count = 2 /\ agg.result.fire.latestDate = FireWarning.pubDate
  /\ agg.result.metadata.totalDisasterTypes = 3


(***************************************************************************)
(* Claims about the TTL policy of the callers                              *)
(***************************************************************************)
\* A set the call made, whatever the store answered.
Wrote(write) == write.outcome # "none"

\* The TTL of the policy class a written value belongs to.
PolicyTtl(op, value) ==
  CASE op = "getLatestDisasters" -> 1800
    [] op = "getOfficialUpdates" -> 3600
    [] op = "getDisasterStats" -> 7200
    [] op = "getBlueskyReports" -> IF AllSynthetic(value) THEN 60 ELSE 180

\* C31: every cache write has the TTL of its policy class: 1800 s from
\* getLatestDisasters, 3600 s from getOfficialUpdates (the one made on behalf
\* of getDisasterStats included), 7200 s from getDisasterStats, 180 s for a
\* genuine social result and 60 s for a synthetic one; a written social
\* result is wholly genuine or wholly synthetic, and neither is ever written
\* with the TTL of the other.
C31_WritesUsePolicyTtl ==
  Called =>
    /\ Wrote(agg.write) => agg.write.ttl = PolicyTtl(agg.op, agg.write.value)
    /\ (agg.op = "getDisasterStats" /\ Wrote(agg.innerWrite)) =>
         agg.innerWrite.ttl = PolicyTtl("getOfficialUpdates", agg.innerWrite.value)
    /\ (IsBluesky /\ Wrote(agg.write)) =>
         /\ agg.write.value # <<>>
         /\ AllSynthetic(agg.write.value) \/ NoneSynthetic(agg.write.value)
         /\ AllSynthetic(agg.write.value) => agg.write.ttl # 180
         /\ NoneSynthetic(agg.write.value) => agg.write.ttl # 60

\* C31 witness: a genuine social result was written and stored with 180 s.
C31_Witness ==
  /\ IsBluesky /\ agg.write.outcome = "ok"
  /\ NoneSynthetic(agg.write.value) /\ agg.write.value # <<>>
  /\ agg.write.ttl = 180
  /\ applied[agg.key].ttl = 180

\* One getDisasterStats call that made both its writes: the official updates
\* for an hour, the statistics for two.
StatsWroteBoth ==
  /\ agg.op = "getDisasterStats"
  /\ agg.innerWrite.outcome = "ok" /\ agg.innerWrite.ttl = 3600
  /\ agg.write.outcome = "ok" /\ agg.write.ttl = 7200

\* A synthetic result written for a minute, declarations for half an hour.
SyntheticWrittenForAMinute ==
  IsBluesky /\ Wrote(agg.write) /\ AllSynthetic(agg.write.value) /\ agg.write.ttl = 60

DeclarationsWrittenForHalfAnHour ==
  agg.op = "getLatestDisasters" /\ agg.write.outcome = "ok" /\ agg.write.ttl = 1800


(***************************************************************************)
(* Claims about the description of a fetched item                          *)
(***************************************************************************)
Fetched == agg.op = "fetchRSSFeed"

\* A tag in the text: a '<' with a '>' somewhere after it.
HoldsTag(str) ==
  \E i \in 1..Len(str), j \in 1..Len(str) :
    i < j /\ SubSeq(str, i, i) = "<" /\ SubSeq(str, j, j) = ">"

\* A tag opening that is never closed: a '<' with no '>' after it.
HoldsOpenTag(str) ==
  \E i \in 1..Len(str) :
    /\ SubSeq(str, i, i) = "<"
    /\ \A j \in (i + 1)..Len(str) : SubSeq(str, j, j) # ">"

\* C32: whatever the description of the source item, the description of the
\* item fetchRSSFeed returns for it holds no tag and no unterminated tag
\* opening.
C32_DescriptionHoldsNoMarkup ==
  Fetched =>
    /\ Len(agg.items) = Len(agg.feed.items)
    /\ \A i \in DOMAIN agg.items :
         ~HoldsTag(agg.items[i].description) /\ ~HoldsOpenTag(agg.items[i].description)

\* C32 witness: a description with a closed tag, a letter and an opening
\* that is never closed comes back as the letter.
C32_Witness ==
  /\ Fetched
  /\ agg.feed.items[1].description = "<>b<"
  /\ agg.items[1].description = "b"

\* A '>' that closes nothing is text and is kept.
LoneCloseKept ==
  /\ Fetched
  /\ agg.feed.items[1].description = "b> b"
  /\ agg.items[1].description = "b> b"


(***************************************************************************)
(* Claims about overlapping social searches                                *)
(***************************************************************************)
\* The overlapping call stored a genuine result that has not expired.
GenuineStoredUnexpired ==
  /\ IsBluesky /\ ~agg.hit
  /\ agg.write.outcome = "ok"
  /\ agg.write.value # <<>> /\ NoneSynthetic(agg.write.value)
  /\ now < agg.at + 180 * MsPerSec

\* C33 (as stated): while a genuine social result stored under a key has not
\* expired, the entry of that key does not hold a synthetic result, whatever
\* the interleaving of the calls for that key.
C33_GenuineNotReplacedBySynthetic ==
  GenuineStoredUnexpired =>
    \E i \in DOMAIN applied[agg.key].value : ~IsSynthetic(applied[agg.key].value[i])

\* Both calls missed the cold cache; one stored the API's posts, then the
\* other, whose search failed, stored fallback data over them for a minute.
GenuineReplacedWithinTtl ==
  /\ GenuineStoredUnexpired
  /\ inflight.op = "getBlueskyReports" /\ inflight.pc = "returned"
  /\ BlueskyCacheKey(inflight.keywords, inflight.options) = agg.key
  /\ AllSynthetic(inflight.result) /\ inflight.result # <<>>
  /\ applied[agg.key].value = inflight.result
  /\ applied[agg.key].ttl = 60
  /\ \E row \in cache : row.key = agg.key /\ row.value = inflight.result

\* What does hold: the entry of the key is the value of the set the store
\* applied last, with the TTL of that value's class.
LastSetWins ==
  (IsBluesky /\ agg.write.outcome = "ok") =>
    /\ applied[agg.key].value # <<>>
    /\ applied[agg.key].ttl = IF AllSynthetic(applied[agg.key].value) THEN 60 ELSE 180
    /\ \A row \in cache : row.key = agg.key => row.value = applied[agg.key].value


(***************************************************************************)
(* Claims about what an aggregation call leaves of the cache               *)
(***************************************************************************)
\* The step is one call of an aggregation operation; agg' is what it left.
CallStep == phase' # phase /\ agg'.op # "none"

SingleKeyOps == {"getLatestDisasters", "getOfficialUpdates", "getBlueskyReports"}

\* The key the call read at its start, from the arguments it was given.
KeyRead(call) ==
  CASE call.op = "getLatestDisasters" -> LatestDisastersKey(call.feeds.options.count)
    [] call.op = "getOfficialUpdates" -> OfficialUpdatesKey(call.feeds.options)
    [] call.op = "getBlueskyReports" -> BlueskyCacheKey(call.keywords, call.options)
    [] call.op = "getDisasterStats" -> DisasterStatsKey

\* Whether the call asked an upstream.
AskedUpstream(call) ==
  IF call.op = "getBlueskyReports" THEN call.api # NoApi
  ELSE call.feeds.pressReleases # NoFeed \/ call.feeds.disasters # NoFeed

\* The rows of the table under keys other than key.
OtherRows(store, key) == {row \in store : row.key # key}

\* One call of the three operations writes under the key it read, and under
\* no other; on a hit it writes nothing and asks no upstream.
WritesOwnKeyOnly ==
  (CallStep /\ agg'.op \in SingleKeyOps) =>
    /\ agg'.key = KeyRead(agg')
    /\ agg'.innerWrite = NoWrite
    /\ Wrote(agg'.write) => agg'.write.key = agg'.key
    /\ OtherRows(cache', agg'.key) = OtherRows(cache, agg'.key)
    /\ Cardinality(RowsOf(cache', agg'.key)) <= 1
    /\ ~Wrote(agg'.write) => cache' = cache
    /\ agg'.hit => (cache' = cache /\ agg'.write = NoWrite /\ ~AskedUpstream(agg'))

\* No step takes the entry of a key away.
NothingDeleted == \A row \in cache : \E kept \in cache' : kept.key = row.key

\* C34: getLatestDisasters, getOfficialUpdates and getBlueskyReports write at
\* most one cache entry a call, under the key they read at their start,
\* leave every other entry as it was, and on a hit write nothing and ask no
\* upstream; no step of any operation deletes a cache entry.
C34_CallsWriteOwnKeyOnly == [][WritesOwnKeyOnly /\ NothingDeleted]_vars

\* C34 witness: a call stored its entry beside the entry of another key,
\* which is still there.
C34_Witness ==
  /\ phase = "done" /\ agg.op \in SingleKeyOps
  /\ agg.write.outcome = "ok"
  /\ \E row \in cache : row.key = agg.key /\ row.value = agg.write.value
  /\ \E row \in cache : row.key # agg.key

\* The second call was a hit: nothing written, no upstream asked.
HitLeftCacheAlone ==
  /\ phase = "done" /\ agg.op \in SingleKeyOps /\ agg.hit
  /\ agg.write = NoWrite /\ ~AskedUpstream(agg)
  /\ \E row \in cache : row.key = agg.key /\ row.value = agg.result


(***************************************************************************)
(* Claims about statistics computed while the feeds fail                   *)
(***************************************************************************)
\* Statistics whose every count is 0, over no item.
ZeroStatistics(stats) ==
  /\ DOMAIN stats = DOMAIN DISASTER_KEYWORDS \cup {"metadata"}
  /\ \A type \in DOMAIN DISASTER_KEYWORDS :
       stats[type].count = 0 /\ stats[type].latestDate = NullDate
  /\ stats.metadata.totalItems = 0
  /\ stats.metadata.totalDisasterTypes = 0

\* The call made on the cold cache while both feeds fail, at clock reading 0.
DegradedCall == phase = "degraded" /\ agg.op = "getDisasterStats"

\* A call made after it, less than two hours later.
LaterWithinTwoHours ==
  phase = "later" /\ agg.op = "getDisasterStats" /\ agg.at < 7200 * MsPerSec

ReadsDegradedEntry ==
  /\ phase = "later" /\ agg.op = "getDisasterStats"
  /\ IsApplied(agg.before) /\ agg.before.ttl = 7200
  /\ ZeroStatistics(agg.before.value)
  /\ agg.at < agg.before.at + 7200 * MsPerSec
  /\ agg.getOutcome \notin SelectFaults

HealsAtExpiry ==
  /\ phase = "later" /\ agg.op = "getDisasterStats"
  /\ IsApplied(agg.before) /\ ZeroStatistics(agg.before.value)
  /\ agg.at = agg.before.at + 7200 * MsPerSec
  /\ agg.getOutcome \notin SelectFaults
  /\ ~agg.hit /\ agg.result.metadata.totalItems = 2

\* The cache read of a call within the two hours fails: the call asks the
\* recovered feeds and returns statistics over their items.
HealsOnFailedRead ==
  /\ LaterWithinTwoHours
  /\ IsApplied(agg.before) /\ ZeroStatistics(agg.before.value)
  /\ agg.getOutcome \in SelectFaults
  /\ ~agg.hit /\ agg.result.metadata.totalItems = 2

\* The store refused the upsert of the zero statistics: nothing is cached.
DegradedStatsNotStored ==
  DegradedCall /\ agg.write.outcome = "error" /\ ~IsApplied(applied[DisasterStatsKey])


(***************************************************************************)
(* Claims about the requests on /disasters                                 *)
(***************************************************************************)
KnownIds == {"reliefAdmin", "netrunnerX"}

\* The step belongs to request r, which it leaves as after.
StepOf(r) == requests'[r] # requests[r]

\* The request was turned away for who sent it.
Rejected(request) == request.pc = "responded" /\ request.status \in {401, 403}

\* A stored row that the step changed or removed.
Touched(row) == row \in disasterTable.rows /\ row \notin disasterTable'.rows

\* Every step of a request: a record is changed by updateDisaster only for
\* an admin or its owner and removed by deleteDisaster only for an admin; a
\* request without a known x-user-id reaches no handler; a rejected request
\* leaves the table, audit trails included, and the events as they were.
OnlyAuthorizedMutations ==
  \A r \in DOMAIN requests :
    StepOf(r) =>
      LET request == requests'[r]
      IN /\ \A row \in disasterTable.rows :
              Touched(row) =>
                /\ row.id = request.id
                /\ \/ /\ request.op = "updateDisaster"
                      /\ request.userid = "reliefAdmin" \/ request.userid = row.owner_id
                      /\ \E kept \in disasterTable'.rows :
                           kept.id = row.id /\ kept.owner_id = row.owner_id
                   \/ /\ request.op = "deleteDisaster"
                      /\ request.userid = "reliefAdmin"
         /\ request.userid \notin KnownIds =>
              ~request.reached /\ request.status = 401 /\ request.pc = "responded"
         /\ Rejected(request) =>
              /\ disasterTable' = disasterTable
              /\ events' = events
              /\ "emit" \notin {request.trace[i] : i \in DOMAIN request.trace}

\* C36: updateDisaster changes a record only for an admin or the record's
\* owner, deleteDisaster removes one only for an admin, a request whose
\* x-user-id is missing or unknown reaches no mutating handler, and a
\* rejected request leaves the stored disaster and its audit trail
\* unchanged and emits no event.
C36_MutationsAreAuthorized == [][OnlyAuthorizedMutations]_vars

\* C36 witness: the admin created a disaster; the contributor's update of
\* it and an unknown user's deletion of it were refused, and the record, its
\* audit trail and the events are as the creation left them.
C36_Witness ==
  /\ requests[1].op = "createDisaster" /\ requests[1].userid = "reliefAdmin"
  /\ requests[1].status = 201
  /\ requests[2].op = "updateDisaster" /\ requests[2].userid = "netrunnerX"
  /\ requests[2].id = 1 /\ requests[2].status = 403
  /\ requests[3].op = "deleteDisaster" /\ requests[3].userid = "intruder"
  /\ requests[3].id = 1 /\ requests[3].status = 401 /\ ~requests[3].reached
  /\ \E row \in disasterTable.rows :
       row.id = 1 /\ row.owner_id = "reliefAdmin" /\ Len(row.audit_trail) = 1
  /\ Len(events) = 1

\* The contributor updated the disaster it owns.
OwnerUpdated ==
  /\ requests[1].op = "createDisaster" /\ requests[1].userid = "netrunnerX"
  /\ requests[2].op = "updateDisaster" /\ requests[2].userid = "netrunnerX"
  /\ requests[2].status = 200
  /\ \E row \in disasterTable.rows : row.id = 1 /\ row.title = FireBody.title


\* The updateDisaster requests on the disaster that were answered 200.
SuccessfulUpdates(id) ==
  {r \in DOMAIN requests :
     /\ requests[r].op = "updateDisaster" /\ requests[r].id = id
     /\ requests[r].pc = "responded" /\ requests[r].status = 200}

\* The audit trail begins with the one 'create' entry and holds one
\* 'update' entry for each successful update.
TrailComplete(row) ==
  /\ Len(row.audit_trail) = Cardinality(SuccessfulUpdates(row.id)) + 1
  /\ row.audit_trail[1].action = "create"
  /\ \A i \in 2..Len(row.audit_trail) : row.audit_trail[i].action = "update"

\* C37 (as stated): the audit trail of a disaster starts with exactly one
\* 'create' entry and, after k successful updateDisaster calls on it, holds
\* k + 1 entries, also when the read and write steps of the calls interleave.
C37_AuditTrailComplete == \A row \in disasterTable.rows : TrailComplete(row)

\* Two updates of one disaster both read its trail before either wrote:
\* both were answered 200, and the trail holds one 'update' entry.
AuditEntryLost ==
  \E row \in disasterTable.rows :
    /\ Cardinality(SuccessfulUpdates(row.id)) = 2
    /\ Len(row.audit_trail) = 2
    /\ Len(events) = 3

\* Two successful updates of the disaster prepared their trail from the same
\* stored trail: the select of one was answered before the other had written.
Overlapped(id) ==
  \E r \in SuccessfulUpdates(id), q \in SuccessfulUpdates(id) :
    /\ r # q
    /\ Len(requests[r].updatedAuditTrail) = Len(requests[q].updatedAuditTrail)

\* What does hold: a trail starts with its 'create' entry, holds 'update'
\* entries after it and never more than one for each successful update; it
\* holds one for each when every update read the trail its predecessor wrote.
TrailCompleteWhenSequential ==
  \A row \in disasterTable.rows :
    /\ row.audit_trail # <<>>
    /\ row.audit_trail[1].action = "create"
    /\ \A i \in 2..Len(row.audit_trail) : row.audit_trail[i].action = "update"
    /\ Len(row.audit_trail) <= Cardinality(SuccessfulUpdates(row.id)) + 1
    /\ ~Overlapped(row.id) => TrailComplete(row)

\* Two updates one after the other: three entries.
TwoUpdatesThreeEntries ==
  \E row \in disasterTable.rows :
    Cardinality(SuccessfulUpdates(row.id)) = 2 /\ Len(row.audit_trail) = 3


\* The request was answered with the handler's success status.
Succeeded(request) == request.pc = "responded" /\ request.status \in {200, 201, 204}

EventType(op) ==
  CASE op = "createDisaster" -> "CREATE"
    [] op = "updateDisaster" -> "UPDATE"
    [] op = "deleteDisaster" -> "DELETE"

\* The write the event tells of is in the table when the event is sent.
WriteVisible(request, event) ==
  CASE request.op = "createDisaster" ->
         event.payload \in disasterTable'.rows /\ event.payload \notin disasterTable.rows
    [] request.op = "updateDisaster" ->
         /\ event.payload \in disasterTable'.rows
         /\ event.payload.id = request.id
         /\ event.payload.audit_trail = request.updatedAuditTrail
    [] request.op = "deleteDisaster" ->
         /\ event.payload = [id |-> request.id]
         /\ \A row \in disasterTable'.rows : row.id # request.id

\* Every step of a request: a call that succeeds sends one event of its
\* type, after its write is in the table and before it responds; any other
\* step sends none, and a call that fails leaves the table as it was.
OneEventPerSuccess ==
  \A r \in DOMAIN requests :
    StepOf(r) =>
      LET request == requests'[r]
      IN IF Succeeded(request)
         THEN /\ Len(events') = Len(events) + 1
              /\ SubSeq(events', 1, Len(events)) = events
              /\ events'[Len(events')].type = EventType(request.op)
              /\ WriteVisible(request, events'[Len(events')])
              /\ request.trace = <<"write", "emit", "respond">>
         ELSE /\ events' = events
              /\ disasterTable' = disasterTable
              /\ request.trace \in {<<>>, <<"next">>}

FailuresSentNothing ==
  /\ requests[1].op = "createDisaster" /\ requests[1].status = 201
  /\ requests[2].op = "updateDisaster" /\ requests[2].status = 500
  /\ requests[2].updatedAuditTrail # <<>>
  /\ requests[3].op = "deleteDisaster" /\ requests[3].status = 403
  /\ Len(events) = 1

====
